---- MODULE Spec2Model ----
(***************************************************************************)
(* A model of llm-html-processor: the extractor and injector over a parsed *)
(* document tree, the response cache, the retry wrapper around the client  *)
(* calls and the process_html orchestrator.                                *)
(*                                                                         *)
(* Strings are sequences of one-character strings, so that strip(),        *)
(* split(), startswith() and the substring tests of the code are computed  *)
(* and not assumed.  A parsed document (the BeautifulSoup tree) is a       *)
(* function from node numbers to node records; node 0 is the [document]    *)
(* object.  Tag names, identifiers and class names are alphanumeric.       *)
(***************************************************************************)
EXTENDS Integers, Sequences, FiniteSets, TLC

\* ------------------------------------------------------------------ bounds

\* Node numbers of a tree: 0 is [document], 1..MaxNode are elements and text.
MaxNode == 7

\* ----------------------------------------------------------------- strings

Space == " "

RECURSIVE LStrip(_)
LStrip(s) == IF s # <<>> /\ Head(s) = Space THEN LStrip(Tail(s)) ELSE s

RECURSIVE RStrip(_)
RStrip(s) ==
    IF s # <<>> /\ s[Len(s)] = Space THEN RStrip(SubSeq(s, 1, Len(s) - 1)) ELSE s

\* str.strip(): whitespace removed at both ends.
Strip(s) == RStrip(LStrip(s))

\* a in b, for strings.
IsSubstr(a, b) ==
    \E i \in 0..(Len(b) - Len(a)) : SubSeq(b, i + 1, i + Len(a)) = a

\* str.startswith
StartsWith(s, p) == Len(p) <= Len(s) /\ SubSeq(s, 1, Len(p)) = p

LowerChar(c) ==
    CASE c = "R" -> "r" [] c = "T" -> "t" [] c = "L" -> "l" [] OTHER -> c

\* str.lower()
Lower(s) == [i \in 1..Len(s) |-> LowerChar(s[i])]

\* The first position at or after `from` where sep occurs in s, or 0.
RECURSIVE FindFrom(_, _, _)
FindFrom(s, sep, from) ==
    IF from + Len(sep) - 1 > Len(s) THEN 0
    ELSE IF SubSeq(s, from, from + Len(sep) - 1) = sep THEN from
    ELSE FindFrom(s, sep, from + 1)

\* str.split(sep): always at least one part.
RECURSIVE Split(_, _)
Split(s, sep) ==
    LET k == FindFrom(s, sep, 1)
    IN  IF k = 0 THEN <<s>>
        ELSE <<SubSeq(s, 1, k - 1)>> \o Split(SubSeq(s, k + Len(sep), Len(s)), sep)

\* sep.join(parts)
RECURSIVE Join(_, _)
Join(parts, sep) ==
    IF parts = <<>> THEN <<>>
    ELSE IF Len(parts) = 1 THEN parts[1]
    ELSE parts[1] \o sep \o Join(Tail(parts), sep)

Reverse(s) == [i \in 1..Len(s) |-> s[Len(s) + 1 - i]]

\* Decimal digits of a small positive number, as str(n) gives them.
Digit(n) ==
    CASE n = 0 -> "0" [] n = 1 -> "1" [] n = 2 -> "2" [] n = 3 -> "3"
      [] n = 4 -> "4" [] n = 5 -> "5" [] n = 6 -> "6" [] n = 7 -> "7"
      [] n = 8 -> "8" [] OTHER -> "9"

RECURSIVE Str(_)
Str(n) == IF n < 10 THEN <<Digit(n)>> ELSE Str(n \div 10) \o <<Digit(n % 10)>>

IsDigit(c) == c \in {"0", "1", "2", "3", "4", "5", "6", "7", "8", "9"}

DigitVal(c) ==
    CASE c = "0" -> 0 [] c = "1" -> 1 [] c = "2" -> 2 [] c = "3" -> 3
      [] c = "4" -> 4 [] c = "5" -> 5 [] c = "6" -> 6 [] c = "7" -> 7
      [] c = "8" -> 8 [] OTHER -> 9

RECURSIVE Num(_)
Num(s) == IF s = <<>> THEN 0 ELSE 10 * Num(SubSeq(s, 1, Len(s) - 1)) + DigitVal(s[Len(s)])

\* Sequence helpers.
RECURSIVE Flatten(_)
Flatten(ss) == IF ss = <<>> THEN <<>> ELSE Head(ss) \o Flatten(Tail(ss))

Range(s) == {s[i] : i \in 1..Len(s)}

\* The index of the first element of s that satisfies nothing but equality to x, or 0.
RECURSIVE IndexOf(_, _)
IndexOf(s, x) ==
    IF s = <<>> THEN 0
    ELSE IF Head(s) = x THEN 1
    ELSE LET r == IndexOf(Tail(s), x) IN IF r = 0 THEN 0 ELSE r + 1

\* ------------------------------------------------------- the document tree

NoAttr == <<>>

DocumentName == <<"[", "d", "o", "c", "u", "m", "e", "n", "t", "]">>

\* The BeautifulSoup object: the parent of the top-level nodes.
RootNode(kids) ==
    [kind |-> "doc", tag |-> DocumentName, id |-> NoAttr, cls |-> <<>>, dir |-> NoAttr,
     lang |-> NoAttr, kids |-> kids, parent |-> -1, text |-> <<>>]

\* A Tag: name, the attributes id, class (a list), dir and lang, and its contents.
Elem(tag, id, cls, dir, lang, parent, kids) ==
    [kind |-> "elem", tag |-> tag, id |-> id, cls |-> cls, dir |-> dir, lang |-> lang,
     kids |-> kids, parent |-> parent, text |-> <<>>]

\* A NavigableString.
TextNode(parent, text) ==
    [kind |-> "text", tag |-> <<>>, id |-> NoAttr, cls |-> <<>>, dir |-> NoAttr,
     lang |-> NoAttr, kids |-> <<>>, parent |-> parent, text |-> text]

\* A node number not in use.
FreeNode ==
    [kind |-> "free", tag |-> <<>>, id |-> NoAttr, cls |-> <<>>, dir |-> NoAttr,
     lang |-> NoAttr, kids |-> <<>>, parent |-> -1, text |-> <<>>]

\* The tree whose node n is ns[n + 1].
MkTree(ns) == [n \in 0..MaxNode |-> IF n < Len(ns) THEN ns[n + 1] ELSE FreeNode]

\* Nodes in document order (depth first), from n down.
RECURSIVE Preorder(_, _)
Preorder(doc, n) ==
    <<n>> \o Flatten([i \in 1..Len(doc[n].kids) |-> Preorder(doc, doc[n].kids[i])])

IsText(doc, n) == doc[n].kind = "text"
IsElem(doc, n) == doc[n].kind = "elem"

\* soup.find_all(text=True): every NavigableString, in document order.
AllTextNodes(doc) == SelectSeq(Preorder(doc, 0), LAMBDA n : IsText(doc, n))

\* Every Tag, in document order.
AllElements(doc) == SelectSeq(Preorder(doc, 0), LAMBDA n : IsElem(doc, n))

\* node.parent, node.parent.parent, ... up to and including [document].
RECURSIVE Ancestors(_, _)
Ancestors(doc, n) ==
    IF doc[n].parent < 0 THEN <<>>
    ELSE <<doc[n].parent>> \o Ancestors(doc, doc[n].parent)

\* Tag.__eq__ / str.__eq__: what list.index compares siblings with.
RECURSIVE NodeEq(_, _, _)
NodeEq(doc, a, b) ==
    IF a = b THEN TRUE
    ELSE IF IsText(doc, a) /\ IsText(doc, b) THEN doc[a].text = doc[b].text
    ELSE IF IsElem(doc, a) /\ IsElem(doc, b)
    THEN /\ doc[a].tag = doc[b].tag
         /\ doc[a].id = doc[b].id /\ doc[a].cls = doc[b].cls
         /\ doc[a].dir = doc[b].dir /\ doc[a].lang = doc[b].lang
         /\ Len(doc[a].kids) = Len(doc[b].kids)
         /\ \A i \in 1..Len(doc[a].kids) : NodeEq(doc, doc[a].kids[i], doc[b].kids[i])
    ELSE FALSE

\* The children of n's parent that carry n's tag name.
SameTagSiblings(doc, n) ==
    IF doc[n].parent < 0 THEN <<>>
    ELSE SelectSeq(doc[doc[n].parent].kids,
                   LAMBDA m : IsElem(doc, m) /\ doc[m].tag = doc[n].tag)

\* siblings.index(current): the first sibling equal to n, counted from 0.
RECURSIVE FirstEqual(_, _, _)
FirstEqual(doc, sibs, n) ==
    IF sibs = <<>> THEN 0
    ELSE IF NodeEq(doc, Head(sibs), n) THEN 0
    ELSE 1 + FirstEqual(doc, Tail(sibs), n)

\* ----------------------------------------------------------------- extractor

MAX_HTML_SIZE == 10485760
MIN_HTML_SIZE == 10

Sep == <<" ", ">", " ">>
NthOpen == <<":", "n", "t", "h", "-", "o", "f", "-", "t", "y", "p", "e", "(">>

\* One segment of the address: the tag, then #id, else .firstclass, else the
\* 1-based ordinal among same-tag siblings when there are several.
TagStr(doc, n) ==
    doc[n].tag \o
    ( IF doc[n].id # NoAttr THEN <<"#">> \o doc[n].id
      ELSE IF doc[n].cls # <<>> THEN <<".">> \o doc[n].cls[1]
      ELSE LET siblings == SameTagSiblings(doc, n)
           IN  IF Len(siblings) > 1
               THEN NthOpen \o Str(FirstEqual(doc, siblings, n) + 1) \o <<")">>
               ELSE <<>> )

\* path_parts, from the node up to the child of [document].
RECURSIVE PathParts(_, _)
PathParts(doc, n) ==
    IF doc[n].kind # "elem" THEN <<>>
    ELSE <<TagStr(doc, n)>> \o PathParts(doc, doc[n].parent)

_generate_css_path(doc, n) == Join(Reverse(PathParts(doc, n)), Sep)

Rtl == <<"r", "t", "l">>
rtl_langs == {<<"h", "e">>, <<"a", "r">>, <<"f", "a">>, <<"u", "r">>}

\* A detection that takes the language from the nearest ancestor that has one.
DetectRtlInheritingLang(doc, n) ==
    LET parents == Ancestors(doc, n)
        langs == SelectSeq([i \in 1..Len(parents) |-> doc[parents[i]].lang],
                           LAMBDA l : l # NoAttr)
        lang == IF doc[n].lang # NoAttr THEN doc[n].lang
                ELSE IF langs # <<>> THEN langs[1] ELSE NoAttr
    IN  \/ doc[n].dir = Rtl
        \/ \E i \in 1..Len(parents) : doc[parents[i]].dir = Rtl
        \/ lang # NoAttr /\ \E r \in rtl_langs : StartsWith(lang, r)
        \/ \E i \in 1..Len(doc[n].cls) : IsSubstr(Rtl, Lower(doc[n].cls[i]))

_detect_rtl(doc, n) ==
    LET parents == Ancestors(doc, n)
        lang == IF doc[n].lang # NoAttr THEN doc[n].lang
                ELSE IF parents # <<>> THEN doc[parents[1]].lang ELSE NoAttr
    IN  \/ doc[n].dir = Rtl
        \/ \E i \in 1..Len(parents) : doc[parents[i]].dir = Rtl
        \/ lang # NoAttr /\ \E r \in rtl_langs : StartsWith(lang, r)
        \/ \E i \in 1..Len(doc[n].cls) : IsSubstr(Rtl, Lower(doc[n].cls[i]))

\* A check that lets the empty and the short document through.
ValidateSizeOnly(html) == IF html.len > MAX_HTML_SIZE THEN "HTMLTooLargeError" ELSE "ok"

\* A check that looks at the size before the emptiness.
ValidateSizeFirst(html) ==
    IF html.len > MAX_HTML_SIZE THEN "HTMLTooLargeError"
    ELSE IF html.len = 0 \/ html.striplen < MIN_HTML_SIZE THEN "EmptyHTMLError"
    ELSE "ok"

\* The document as the caller hands it over: the source string's length, the
\* length of its strip(), and the tree html.parser builds from it.
_validate_html(html) ==
    IF html.len = 0 \/ html.striplen < MIN_HTML_SIZE THEN "EmptyHTMLError"
    ELSE IF html.len > MAX_HTML_SIZE THEN "HTMLTooLargeError"
    ELSE "ok"

\* A traversal that measures the text as it stands in the document.
ExtractedNodesUntrimmed(doc, min_text_length) ==
    SelectSeq(AllTextNodes(doc),
              LAMBDA n : /\ Strip(doc[n].text) # <<>>
                         /\ Len(doc[n].text) >= min_text_length)

\* The text nodes process_node keeps, in the order it visits them.
ExtractedNodes(doc, min_text_length) ==
    SelectSeq(AllTextNodes(doc),
              LAMBDA n : /\ Strip(doc[n].text) # <<>>
                         /\ Len(Strip(doc[n].text)) >= min_text_length)

TextChunk(text, path, is_rtl) == [text |-> text, path |-> path, is_rtl |-> is_rtl]

\* The chunks of a document that passed _validate_html.
extract_text_nodes(doc, min_text_length) ==
    LET ns == ExtractedNodes(doc, min_text_length)
    IN  [i \in 1..Len(ns) |->
            TextChunk(Strip(doc[ns[i]].text),
                      _generate_css_path(doc, doc[ns[i]].parent),
                      _detect_rtl(doc, doc[ns[i]].parent))]

\* ------------------------------------------------------------ the documents

P == <<"p">>
B == <<"b">>
Div == <<"d", "i", "v">>
Br == <<"b", "r">>
K == <<"k">>
Ab == <<"a", "b">>
Cd == <<"c", "d">>
Ef == <<"e", "f">>

Html(tree, len, striplen) == [tree |-> tree, len |-> len, striplen |-> striplen]

\* <div><p>ab</p></div>
DocSimple ==
    Html(MkTree(<<RootNode(<<1>>), Elem(Div, NoAttr, <<>>, NoAttr, NoAttr, 0, <<2>>),
                  Elem(P, NoAttr, <<>>, NoAttr, NoAttr, 1, <<3>>), TextNode(2, Ab)>>),
         20, 20)

\* <p>ab <b>cd</b> ef</p>: one element holding two text runs around a child.
DocMixed ==
    Html(MkTree(<<RootNode(<<1>>), Elem(P, NoAttr, <<>>, NoAttr, NoAttr, 0, <<2, 3, 5>>),
                  TextNode(1, Ab \o <<Space>>),
                  Elem(B, NoAttr, <<>>, NoAttr, NoAttr, 1, <<4>>), TextNode(3, Cd),
                  TextNode(1, <<Space>> \o Ef)>>),
         22, 22)

\* <p><b>cd</b> ef</p>: the child element comes before the element's own text.
DocElemFirst ==
    Html(MkTree(<<RootNode(<<1>>), Elem(P, NoAttr, <<>>, NoAttr, NoAttr, 0, <<2, 4>>),
                  Elem(B, NoAttr, <<>>, NoAttr, NoAttr, 1, <<3>>), TextNode(2, Cd),
                  TextNode(1, <<Space>> \o Ef)>>),
         19, 19)

\* <p class="k">ab</p><p class="k">cd</p>: siblings with one address.
DocSameClass ==
    Html(MkTree(<<RootNode(<<1, 3>>), Elem(P, NoAttr, <<K>>, NoAttr, NoAttr, 0, <<2>>),
                  TextNode(1, Ab),
                  Elem(P, NoAttr, <<K>>, NoAttr, NoAttr, 0, <<4>>), TextNode(3, Cd)>>),
         38, 38)

\* <p>ab</p><p>ab</p>: equal siblings.
DocTwins ==
    Html(MkTree(<<RootNode(<<1, 3>>), Elem(P, NoAttr, <<>>, NoAttr, NoAttr, 0, <<2>>),
                  TextNode(1, Ab),
                  Elem(P, NoAttr, <<>>, NoAttr, NoAttr, 0, <<4>>), TextNode(3, Ab)>>),
         18, 18)

\* <p>ab</p><p>cd</p>
DocSiblings ==
    Html(MkTree(<<RootNode(<<1, 3>>), Elem(P, NoAttr, <<>>, NoAttr, NoAttr, 0, <<2>>),
                  TextNode(1, Ab),
                  Elem(P, NoAttr, <<>>, NoAttr, NoAttr, 0, <<4>>), TextNode(3, Cd)>>),
         18, 18)

\* ab<p>cd</p>ef: text directly under [document].
DocRootText ==
    Html(MkTree(<<RootNode(<<1, 2, 4>>), TextNode(0, Ab),
                  Elem(P, NoAttr, <<>>, NoAttr, NoAttr, 0, <<3>>), TextNode(2, Cd),
                  TextNode(0, Ef)>>),
         13, 13)

\* <div><div><p>ab</p></div><p>cd</p></div>
DocNested ==
    Html(MkTree(<<RootNode(<<1>>), Elem(Div, NoAttr, <<>>, NoAttr, NoAttr, 0, <<2, 5>>),
                  Elem(Div, NoAttr, <<>>, NoAttr, NoAttr, 1, <<3>>),
                  Elem(P, NoAttr, <<>>, NoAttr, NoAttr, 2, <<4>>), TextNode(3, Ab),
                  Elem(P, NoAttr, <<>>, NoAttr, NoAttr, 1, <<6>>), TextNode(5, Cd)>>),
         40, 40)

\* <p dir="rtl">ab</p><p>cd</p>
DocRtl ==
    Html(MkTree(<<RootNode(<<1, 3>>), Elem(P, NoAttr, <<>>, Rtl, NoAttr, 0, <<2>>),
                  TextNode(1, Ab),
                  Elem(P, NoAttr, <<>>, NoAttr, NoAttr, 0, <<4>>), TextNode(3, Cd)>>),
         28, 28)

\* The empty string.
DocEmpty == Html(MkTree(<<RootNode(<<>>)>>), 0, 0)

\* <p>ab</p>: nine characters, under MIN_HTML_SIZE.
DocTiny ==
    Html(MkTree(<<RootNode(<<1>>), Elem(P, NoAttr, <<>>, NoAttr, NoAttr, 0, <<2>>),
                  TextNode(1, Ab)>>),
         9, 9)

\* <div><br/></div>: no text at all.
DocNoText ==
    Html(MkTree(<<RootNode(<<1>>), Elem(Div, NoAttr, <<>>, NoAttr, NoAttr, 0, <<2>>),
                  Elem(Br, NoAttr, <<>>, NoAttr, NoAttr, 1, <<>>)>>),
         16, 16)

\* " <p> abc </p> ": whitespace around the markup and around the text.
DocSpaced ==
    Html(MkTree(<<RootNode(<<1, 2, 4>>), TextNode(0, <<Space>>),
                  Elem(P, NoAttr, <<>>, NoAttr, NoAttr, 0, <<3>>),
                  TextNode(2, <<Space>> \o Ab \o <<"c", Space>>), TextNode(0, <<Space>>)>>),
         14, 12)

\* <div><p>ab</p></div> with one byte more than MAX_HTML_SIZE of markup the
\* parser keeps no text of (attribute values).
DocHuge ==
    Html(DocSimple.tree, MAX_HTML_SIZE + 1, MAX_HTML_SIZE + 1)

\* The same with exactly MAX_HTML_SIZE bytes.
DocAtCap ==
    Html(DocSimple.tree, MAX_HTML_SIZE, MAX_HTML_SIZE)

\* One byte more than MAX_HTML_SIZE of whitespace around nine characters.
DocBlankHuge ==
    Html(DocTiny.tree, MAX_HTML_SIZE + 1, 9)

\* The documents are handed around by name.
Documents ==
    {"DocSimple", "DocMixed", "DocElemFirst", "DocSameClass", "DocTwins", "DocSiblings",
     "DocRootText", "DocNested", "DocRtl", "DocEmpty", "DocTiny", "DocNoText", "DocSpaced",
     "DocHuge", "DocAtCap", "DocBlankHuge"}

Source(name) ==
    CASE name = "DocSimple" -> DocSimple
      [] name = "DocMixed" -> DocMixed
      [] name = "DocElemFirst" -> DocElemFirst
      [] name = "DocSameClass" -> DocSameClass
      [] name = "DocTwins" -> DocTwins
      [] name = "DocSiblings" -> DocSiblings
      [] name = "DocRootText" -> DocRootText
      [] name = "DocNested" -> DocNested
      [] name = "DocRtl" -> DocRtl
      [] name = "DocTiny" -> DocTiny
      [] name = "DocNoText" -> DocNoText
      [] name = "DocSpaced" -> DocSpaced
      [] name = "DocHuge" -> DocHuge
      [] name = "DocAtCap" -> DocAtCap
      [] name = "DocBlankHuge" -> DocBlankHuge
      [] OTHER -> DocEmpty

Tree(name) == Source(name).tree

\* ------------------------------------------------------------- CSS selection

SelectorMarks == {"#", ".", ":"}

RECURSIVE FirstMark(_, _)
FirstMark(part, from) ==
    IF from > Len(part) THEN 0
    ELSE IF part[from] \in SelectorMarks THEN from
    ELSE FirstMark(part, from + 1)

\* One compound selector of an address, as the selector engine reads it: a tag
\* name, then nothing, #id, .class or :nth-of-type(n).
ParsePart(part) ==
    LET k == FirstMark(part, 1)
        tag == IF k = 0 THEN part ELSE SubSeq(part, 1, k - 1)
        rest == IF k = 0 THEN <<>> ELSE SubSeq(part, k + 1, Len(part))
        q == IF k = 0 THEN "none"
             ELSE IF part[k] = "#" THEN "id"
             ELSE IF part[k] = "." THEN "class" ELSE "nth"
        digits == SubSeq(rest, Len(NthOpen), Len(rest) - 1)
        nthOk == /\ Len(rest) > Len(NthOpen)
                 /\ SubSeq(rest, 1, Len(NthOpen) - 1) = Tail(NthOpen)
                 /\ rest[Len(rest)] = ")"
                 /\ \A i \in 1..Len(digits) : IsDigit(digits[i])
                 /\ Num(digits) > 0
        ok == /\ Space \notin Range(part) /\ ">" \notin Range(part)
              /\ CASE q = "none" -> tag # <<>>
                   [] q = "nth" -> nthOk
                   [] OTHER -> rest # <<>> /\ FirstMark(rest, 1) = 0
    IN  [ok |-> ok, tag |-> tag, q |-> q, name |-> rest,
         n |-> IF q = "nth" /\ nthOk THEN Num(digits) ELSE 0]

\* Does element n satisfy one compound selector?
MatchPart(doc, n, seg) ==
    /\ IsElem(doc, n)
    /\ seg.tag = <<>> \/ doc[n].tag = seg.tag
    /\ CASE seg.q = "id" -> doc[n].id = seg.name
         [] seg.q = "class" -> seg.name \in Range(doc[n].cls)
         [] seg.q = "nth" -> IndexOf(SameTagSiblings(doc, n), n) = seg.n
         [] OTHER -> TRUE

\* Does n satisfy segs[k], its parent segs[k-1], and so on (child combinators)?
RECURSIVE MatchChain(_, _, _, _)
MatchChain(doc, n, segs, k) ==
    /\ n >= 0
    /\ MatchPart(doc, n, segs[k])
    /\ k = 1 \/ MatchChain(doc, doc[n].parent, segs, k - 1)

ParsePath(path) == LET parts == Split(path, Sep) IN [i \in 1..Len(parts) |-> ParsePart(parts[i])]

ValidSelector(path) == \A i \in 1..Len(ParsePath(path)) : ParsePath(path)[i].ok

\* soup.select(path) for a valid selector: the matching elements in document order.
Select(doc, path) ==
    LET segs == ParsePath(path)
    IN  SelectSeq(AllElements(doc), LAMBDA n : MatchChain(doc, n, segs, Len(segs)))

\* ------------------------------------------------------------------ injector

None == -1
InvalidSelector == -2

\* p.split("#")[0].split(".")[0].split(":")[0]
Simplify(p) == Split(Split(Split(p, <<"#">>)[1], <<".">>)[1], <<":">>)[1]

\* path_parts of the relaxed search: the last part, then the names of up to
\* `steps` ancestors of the candidate, [document] included.
RECURSIVE CandidateParts(_, _, _)
CandidateParts(doc, n, steps) ==
    IF steps = 0 \/ doc[n].parent < 0 THEN <<>>
    ELSE <<doc[doc[n].parent].tag>> \o CandidateParts(doc, doc[n].parent, steps - 1)

RefineMatches(doc, candidate, parts) ==
    LET last_part == parts[Len(parts)]
        path_parts == <<last_part>> \o CandidateParts(doc, candidate, Len(parts) - 1)
        rev == Reverse(parts)
        original_simple == [i \in 1..Len(rev) |-> Simplify(rev[i])]
        candidate_simple == [i \in 1..Len(path_parts) |-> Simplify(path_parts[i])]
    IN  /\ Len(original_simple) <= Len(candidate_simple)
        /\ \A i \in 1..Len(original_simple) : original_simple[i] = candidate_simple[i]

\* What _find_node_by_path returns once the exact selection (nodes) and the
\* selection of the last part (candidates) are known.
FirstOf(doc, nodes, parts, candidates) ==
    LET refined == SelectSeq(candidates, LAMBDA c : RefineMatches(doc, c, parts))
    IN  IF nodes # <<>> THEN nodes[1]
        ELSE IF Len(candidates) > 1 /\ Len(parts) > 1 /\ refined # <<>> THEN refined[1]
        ELSE IF Len(candidates) = 1 THEN candidates[1]
        ELSE None

LastPart(parts) == parts[Len(parts)]

\* The element an address resolves to, None, or InvalidSelector.
_find_node_by_path(doc, path) ==
    IF ~ValidSelector(path) THEN InvalidSelector
    ELSE FirstOf(doc, Select(doc, path), Split(path, Sep),
                 Select(doc, LastPart(Split(path, Sep))))

\* A response the client returned as None rather than as a string.
NoneText == <<"None">>

\* _validate_chunks: TRUE when it raises ValueError.
_validate_chunks(chunks) ==
    \/ chunks = <<>>
    \/ \E i \in 1..Len(chunks) : chunks[i].path = <<>> \/ chunks[i].text = NoneText

\* The .string of a node: a text node is its own string, a tag with exactly one
\* child has that child's string, any other tag has none (<<FALSE, ...>>).
RECURSIVE StringOf(_, _)
StringOf(doc, n) ==
    IF IsText(doc, n) THEN [some |-> TRUE, s |-> doc[n].text]
    ELSE IF Len(doc[n].kids) = 1 THEN StringOf(doc, doc[n].kids[1])
    ELSE [some |-> FALSE, s |-> <<>>]

HasText(doc, n) == StringOf(doc, n).some /\ Strip(StringOf(doc, n).s) # <<>>

Below(doc, n) == Range(Preorder(doc, n)) \ {n}

\* child.replace_with(text): a new text node takes the child's place; what
\* was below the child leaves the tree.
ReplaceWith(doc, child, text) ==
    [m \in 0..MaxNode |->
        IF m = child THEN TextNode(doc[child].parent, text)
        ELSE IF m \in Below(doc, child) THEN FreeNode
        ELSE doc[m]]

\* node.string = text: the contents are cleared and one text node appended.
SetString(doc, n, text) ==
    LET cleared == [m \in 0..MaxNode |-> IF m \in Below(doc, n) THEN FreeNode ELSE doc[m]]
        fresh == CHOOSE f \in 1..MaxNode :
                    /\ cleared[f].kind = "free"
                    /\ \A g \in 1..MaxNode : cleared[g].kind = "free" => f <= g
    IN  [cleared EXCEPT ![n].kids = <<fresh>>, ![fresh] = TextNode(n, text)]

\* The keys of chunk_map in insertion order: each address once, at its first use.
RECURSIVE ChunkMapKeys(_)
ChunkMapKeys(chunks) ==
    IF chunks = <<>> THEN <<>>
    ELSE LET front == ChunkMapKeys(SubSeq(chunks, 1, Len(chunks) - 1))
             path == chunks[Len(chunks)].path
         IN  IF path \in Range(front) THEN front ELSE Append(front, path)

\* chunk_map[path]: the last chunk that carries the address.
ChunkMapGet(chunks, path) ==
    LET last == CHOOSE i \in 1..Len(chunks) :
                    /\ chunks[i].path = path
                    /\ \A j \in 1..Len(chunks) : chunks[j].path = path => j <= i
    IN  chunks[last]

\* Does element n hold a text node of its own that is not blank?
HasDirectText(doc, n) ==
    \E i \in 1..Len(doc[n].kids) :
        IsText(doc, doc[n].kids[i]) /\ Strip(doc[doc[n].kids[i]].text) # <<>>

\* Every address that is not found is fatal.
NotFoundRaises(st, strict) == [st EXCEPT !.raised = "NodeNotFoundError"]

\* The address resolves to no node: NodeNotFoundError when strict, else the
\* errors counter goes up and the loop goes on.
NotFound(st, strict) ==
    IF strict THEN [st EXCEPT !.raised = "NodeNotFoundError"]
    ELSE [st EXCEPT !.errors = @ + 1]

\* One round of the exact-address loop, on the state st of inject_text, once
\* the address is resolved to node.  The field `direct` records that every
\* element resolved so far held a text node of its own when it was resolved.
PassOneAt(st, path, chunk, strict, node) ==
    LET texts == SelectSeq(st.doc[node].kids, LAMBDA c : HasText(st.doc, c))
    IN  IF st.raised # "none" THEN st
        ELSE IF node = InvalidSelector
        THEN [st EXCEPT !.errors = @ + 1,
                        !.raised = IF strict THEN "InvalidSelectorError" ELSE "none"]
        ELSE IF node = None THEN NotFound(st, strict)
        ELSE IF texts # <<>>
        THEN [st EXCEPT !.doc = ReplaceWith(st.doc, texts[1], chunk.text),
                        !.processed_nodes = @ \cup {path},
                        !.direct = @ /\ HasDirectText(st.doc, node)]
        ELSE [st EXCEPT !.doc = SetString(st.doc, node, chunk.text),
                        !.processed_nodes = @ \cup {path},
                        !.direct = @ /\ HasDirectText(st.doc, node)]

PassOneStep(st, path, chunk, strict) ==
    PassOneAt(st, path, chunk, strict, _find_node_by_path(st.doc, path))

RECURSIVE PassOne(_, _, _, _)
PassOne(st, keys, chunks, strict) ==
    IF keys = <<>> THEN st
    ELSE PassOne(PassOneStep(st, Head(keys), ChunkMapGet(chunks, Head(keys)), strict),
                 Tail(keys), chunks, strict)

\* The content-match loop over the text nodes found after pass one: each is
\* replaced by the first unprocessed chunk whose address contains the node's
\* text or is contained in it.
RECURSIVE PassTwo(_, _, _)
PassTwo(doc, nodes, unprocessed) ==
    IF nodes = <<>> THEN doc
    ELSE LET node == Head(nodes)
             txt == Strip(doc[node].text)
             hits == SelectSeq(unprocessed,
                        LAMBDA c : IsSubstr(txt, c.path) \/ IsSubstr(c.path, txt))
         IN  IF txt # <<>> /\ hits # <<>>
             THEN PassTwo(ReplaceWith(doc, node, hits[1].text), Tail(nodes), unprocessed)
             ELSE PassTwo(doc, Tail(nodes), unprocessed)

\* The rest of inject_text after pass one has left the state `one`.
AfterPassOne(one, chunks) ==
    LET unprocessed == SelectSeq(chunks, LAMBDA c : c.path \notin one.processed_nodes)
    IN  IF one.raised # "none" \/ unprocessed = <<>> THEN one
        ELSE [one EXCEPT !.doc = PassTwo(one.doc, AllTextNodes(one.doc), unprocessed)]

InjectStart(tree) ==
    [raised |-> "none", doc |-> tree, errors |-> 0, direct |-> TRUE, processed_nodes |-> {}]

\* inject_text(html, chunks, strict): what it raises ("none" when it returns)
\* and the tree whose str() it returns.
inject_text(tree, chunks, strict) ==
    IF _validate_chunks(chunks)
    THEN [InjectStart(tree) EXCEPT !.raised = "ValueError"]
    ELSE AfterPassOne(PassOne(InjectStart(tree), ChunkMapKeys(chunks), chunks, strict), chunks)

\* ------------------------------------------------------------ str(soup)

Token(t, nd, s) ==
    [t |-> t, tag |-> nd.tag, id |-> nd.id, cls |-> nd.cls, dir |-> nd.dir,
     lang |-> nd.lang, s |-> s]

\* The tags and text runs of the output, in order.
RECURSIVE Render(_, _)
Render(doc, n) ==
    IF IsText(doc, n) THEN <<Token("text", doc[n], doc[n].text)>>
    ELSE LET inner == Flatten([i \in 1..Len(doc[n].kids) |-> Render(doc, doc[n].kids[i])])
         IN  IF IsElem(doc, n)
             THEN <<Token("open", doc[n], <<>>)>> \o inner \o <<Token("close", doc[n], <<>>)>>
             ELSE inner

\* Adjacent text runs are one run in the output string.
RECURSIVE Merge(_)
Merge(toks) ==
    IF Len(toks) < 2 THEN toks
    ELSE IF toks[1].t = "text" /\ toks[2].t = "text"
    THEN Merge(<<[toks[1] EXCEPT !.s = @ \o toks[2].s]>> \o SubSeq(toks, 3, Len(toks)))
    ELSE <<toks[1]>> \o Merge(Tail(toks))

\* The output up to whitespace normalization: text runs stripped, empty runs dropped.
Normalized(doc) ==
    LET stripped == [i \in 1..Len(Merge(Render(doc, 0))) |->
                        [Merge(Render(doc, 0))[i] EXCEPT !.s = Strip(@)]]
    IN  SelectSeq(stripped, LAMBDA k : k.t # "text" \/ k.s # <<>>)

\* The tree of elements alone: tags, nesting and order.
ElementTree(doc) == SelectSeq(Render(doc, 0), LAMBDA k : k.t # "text")

\* --------------------------------------------------------------------- cache

\* params restricted to the names in `names`.
Restrict(params, names) == [n \in (DOMAIN params) \cap names |-> params[n]]

\* A filter that lets the timeout through.
ParamsWithTimeout == {"temperature", "max_tokens", "top_p", "top_k", "timeout"}

RelevantParams == {"temperature", "max_tokens", "top_p", "top_k"}

\* The cache key: the hash of the normalized messages, the model and the
\* relevant parameters.  The hash is taken as injective on what it hashes.
_generate_key(messages, model, params) ==
    [messages |-> [i \in 1..Len(messages) |->
                      [role |-> messages[i].role, content |-> messages[i].content]],
     model |-> model,
     params |-> Restrict(params, RelevantParams)]

\* The metadata index is a dict: entries in insertion order, one per key.
Keys(md) == {md[j].key : j \in 1..Len(md)}

Lookup(md, key) == md[CHOOSE j \in 1..Len(md) : md[j].key = key]

\* self.metadata[key] = entry: an existing key keeps its place.
Put(md, entry) ==
    IF entry.key \in Keys(md)
    THEN [j \in 1..Len(md) |-> IF md[j].key = entry.key THEN entry ELSE md[j]]
    ELSE Append(md, entry)

\* del self.metadata[key]
Del(md, key) == SelectSeq(md, LAMBDA e : e.key # key)

DropFile(files, key) == [k \in (DOMAIN files) \ {key} |-> files[k]]

\* What the file system does to one cache operation: reading a payload,
\* writing one, writing metadata.json and deleting payloads can each fail.
IoOk == [read_fails |-> FALSE, write_fails |-> FALSE, save_fails |-> FALSE,
         remove_fails |-> FALSE]

\* The failures the cache runs draw from: at most one kind strikes one
\* operation, and only a kind the operation can meet.
GetOutcomes == {IoOk, [IoOk EXCEPT !.read_fails = TRUE], [IoOk EXCEPT !.remove_fails = TRUE]}

SetOutcomes == {IoOk, [IoOk EXCEPT !.write_fails = TRUE], [IoOk EXCEPT !.remove_fails = TRUE]}

ClearOutcomes == {IoOk, [IoOk EXCEPT !.remove_fails = TRUE]}

\* The failure of writing metadata.json, which a set and a clear can meet.
SaveFails == [IoOk EXCEPT !.save_fails = TRUE]

\* A cache as its operations see it: the instance's index, the payload files
\* and metadata.json of its directory.
Cache(md, fs, mf) == [metadata |-> md, files |-> fs, metadata_file |-> mf]

\* A removal that leaves the payload file where it is.
RemoveEntryKeepingFile(c, key, io) == [c EXCEPT !.metadata = Del(@, key)]

_remove_entry(c, key, io) ==
    [c EXCEPT !.metadata = Del(@, key),
              !.files = IF key \in DOMAIN @ /\ ~io.remove_fails THEN DropFile(@, key) ELSE @]

Cr == "\r"
Lf == "\n"

\* f.read() of a file opened in text mode with the default newline handling:
\* "\r\n" and a lone "\r" come back as "\n".
RECURSIVE ReadText(_)
ReadText(s) ==
    IF s = <<>> THEN <<>>
    ELSE IF s[1] = Cr
    THEN <<Lf>> \o ReadText(SubSeq(s, IF Len(s) >= 2 /\ s[2] = Lf THEN 3 ELSE 2, Len(s)))
    ELSE <<s[1]>> \o ReadText(Tail(s))

\* A get that does not look at the age of the entry.
CacheGetIgnoringAge(c, key, time, ttl_, io) ==
    IF key \notin Keys(c.metadata) THEN [c |-> c, ret |-> NoneText]
    ELSE IF key \notin DOMAIN c.files \/ io.read_fails
    THEN [c |-> _remove_entry(c, key, io), ret |-> NoneText]
    ELSE [c |-> c, ret |-> ReadText(c.files[key])]

\* A get that leaves an entry without a readable payload in the index.
CacheGetKeepingBroken(c, key, time, ttl_, io) ==
    IF key \notin Keys(c.metadata) THEN [c |-> c, ret |-> NoneText]
    ELSE IF time - Lookup(c.metadata, key).timestamp > ttl_
    THEN [c |-> _remove_entry(c, key, io), ret |-> NoneText]
    ELSE IF key \notin DOMAIN c.files \/ io.read_fails
    THEN [c |-> c, ret |-> NoneText]
    ELSE [c |-> c, ret |-> ReadText(c.files[key])]

\* A get that renews the timestamp of the entry it returns.
CacheGetTouching(c, key, time, ttl_, io) ==
    IF key \notin Keys(c.metadata) THEN [c |-> c, ret |-> NoneText]
    ELSE IF time - Lookup(c.metadata, key).timestamp > ttl_
    THEN [c |-> _remove_entry(c, key, io), ret |-> NoneText]
    ELSE IF key \notin DOMAIN c.files \/ io.read_fails
    THEN [c |-> _remove_entry(c, key, io), ret |-> NoneText]
    ELSE [c |-> [c EXCEPT !.metadata =
                    [j \in 1..Len(@) |->
                        IF @[j].key = key THEN [@[j] EXCEPT !.timestamp = time] ELSE @[j]]],
          ret |-> ReadText(c.files[key])]

\* get: the cache after the call and what the call returns (NoneText for None).
CacheGet(c, key, time, ttl_, io) ==
    IF key \notin Keys(c.metadata) THEN [c |-> c, ret |-> NoneText]
    ELSE IF time - Lookup(c.metadata, key).timestamp > ttl_
    THEN [c |-> _remove_entry(c, key, io), ret |-> NoneText]
    ELSE IF key \notin DOMAIN c.files
    THEN [c |-> _remove_entry(c, key, io), ret |-> NoneText]
    ELSE IF io.read_fails
    THEN [c |-> _remove_entry(c, key, io), ret |-> NoneText]
    ELSE [c |-> c, ret |-> ReadText(c.files[key])]

\* A sort that leaves the entries in dict order.
SortedAppend(sorted, e) == Append(sorted, e)

\* sorted(..., key=timestamp): stable, so equal timestamps keep dict order.
SortedInsert(sorted, e) ==
    LET k == Cardinality({j \in 1..Len(sorted) : sorted[j].timestamp <= e.timestamp})
    IN  SubSeq(sorted, 1, k) \o <<e>> \o SubSeq(sorted, k + 1, Len(sorted))

RECURSIVE SortByTimestamp(_)
SortByTimestamp(md) ==
    IF md = <<>> THEN <<>>
    ELSE SortedInsert(SortByTimestamp(SubSeq(md, 1, Len(md) - 1)), md[Len(md)])

RECURSIVE RemoveAll(_, _, _)
RemoveAll(c, entries, io) ==
    IF entries = <<>> THEN c
    ELSE RemoveAll(_remove_entry(c, Head(entries).key, io), Tail(entries), io)

\* A cleanup that stops one entry short of the bound.
ToEvictOneLess(md, max) ==
    IF Len(md) <= max + 1 THEN <<>> ELSE SubSeq(SortByTimestamp(md), 1, Len(md) - max - 1)

\* The entries _cleanup removes: the oldest len - max_entries, if any.
ToEvict(md, max) ==
    IF Len(md) <= max THEN <<>> ELSE SubSeq(SortByTimestamp(md), 1, Len(md) - max)

_cleanup(c, max, io) == RemoveAll(c, ToEvict(c.metadata, max), io)

_save_metadata(c, io) == IF io.save_fails THEN c ELSE [c EXCEPT !.metadata_file = c.metadata]

Entry(key, time) ==
    [key |-> key, timestamp |-> time, model |-> key.model, params |-> key.params]

\* The cache with the payload written and the key indexed, before _cleanup.
Stored(c, key, response, time) ==
    [c EXCEPT !.files = (key :> response) @@ @,
              !.metadata = Put(@, Entry(key, time))]

\* What a handler lets through: an error it names is swallowed.
Escapes(error, caught) == IF error \in caught THEN "none" ELSE error

\* What set raises: the IOError of the payload write is caught in set, that
\* of the index write in _save_metadata.
CacheSetRaises(io) ==
    IF io.write_fails THEN Escapes("IOError", {"IOError"})
    ELSE IF io.save_fails THEN Escapes("IOError", {"IOError"})
    ELSE "none"

\* A set that indexes the key although its payload could not be written.
CacheSetIndexingAnyway(c, key, response, time, max, io) ==
    IF io.write_fails
    THEN _save_metadata(_cleanup([c EXCEPT !.metadata = Put(@, Entry(key, time))], max, io), io)
    ELSE _save_metadata(_cleanup(Stored(c, key, response, time), max, io), io)

\* set: the cache after the call.
CacheSet(c, key, response, time, max, io) ==
    IF io.write_fails THEN c
    ELSE _save_metadata(_cleanup(Stored(c, key, response, time), max, io), io)

\* A clear that resets the index and leaves the payload files alone.
CacheClearIndexOnly(c, io) == _save_metadata([c EXCEPT !.metadata = <<>>], io)

\* clear: every entry removed, the index reset and saved.
CacheClear(c, io) ==
    _save_metadata([RemoveAll(c, c.metadata, io) EXCEPT !.metadata = <<>>], io)

\* _load_metadata: the index a new instance starts from.
_load_metadata(c) == c.metadata_file

\* ttl and max_entries of LLMCache() as global_cache is built.
DEFAULT_TTL == 86400
DEFAULT_MAX_ENTRIES == 1000

\* ------------------------------------------------------------- retry wrapper

\* retry_with_backoff(max_retries=3) with its default delays.
MAX_RETRIES == 3
INITIAL_DELAY == 1
MAX_DELAY == 10
BACKOFF_FACTOR == 2

Min(a, b) == IF a < b THEN a ELSE b

\* What one invocation of a function leaves: the exception it raises ("none"
\* when it returns), the value it returns, the cache after it and the number
\* of network calls it made.
Outcome(raised, value, c, net) == [raised |-> raised, value |-> value, c |-> c, net |-> net]

\* handle_http_errors: httpx errors become errors of the LLMError family,
\* anything else passes.
HttpError(raised) ==
    CASE raised = "HTTPStatusError:429" -> "RateLimitError"
      [] raised = "HTTPStatusError:401" -> "AuthenticationError"
      [] raised = "HTTPStatusError:404" -> "ModelError"
      [] raised \in {"HTTPStatusError:500", "RequestError"} -> "LLMError"
      [] OTHER -> raised

handle_http_errors(r) == [r EXCEPT !.raised = HttpError(@)]

\* The conversion the wrapper applies to an exception before it would sleep:
\* the exception it raises instead, or "none" when it goes on to sleep.
Converted(raised) ==
    CASE raised = "OpenAIError:rate_limit" -> "RateLimitError"
      [] raised = "OpenAIError:authentication" -> "AuthenticationError"
      [] raised = "OpenAIError:model" -> "ModelError"
      [] raised = "GenAIError:RateLimitError" -> "RateLimitError"
      [] raised = "GenAIError:AuthenticationError" -> "AuthenticationError"
      [] raised = "GenAIError:ModelError" -> "ModelError"
      [] raised = "GenAIError" -> "LLMError"
      [] OTHER -> "none"

\* The arguments of retry_with_backoff.
RetryConfig(max_retries, initial_delay, max_delay, backoff_factor) ==
    [max_retries |-> max_retries, initial_delay |-> initial_delay,
     max_delay |-> max_delay, backoff_factor |-> backoff_factor]

\* The arguments the three clients decorate chat with.
DefaultConfig == RetryConfig(MAX_RETRIES, INITIAL_DELAY, MAX_DELAY, BACKOFF_FACTOR)

\* One attempt more than range(max_retries + 1) holds.
OneMoreAttempt(cfg, attempt) == attempt = cfg.max_retries + 1

\* if attempt == max_retries: break
LastAttempt(cfg, attempt) == attempt = cfg.max_retries

\* A sleep without the cap.
SleepUncapped(cfg, delay) == delay

\* time.sleep(min(delay, max_delay))
SleepTime(cfg, delay) == Min(delay, cfg.max_delay)

\* delay *= backoff_factor
NextDelay(cfg, delay) == delay * cfg.backoff_factor

\* The wrapper's loop variables at the start of a call.
WrapperStart == [attempt |-> 0, delay |-> INITIAL_DELAY]

\* One round of the loop of the wrapper built with the arguments cfg, for the
\* outcome r of the wrapped function at loop state w: whether the call ends,
\* what it raises or returns, the sleep it takes (0 for none) and the next
\* loop state.
Wrapper(cfg, w, r) ==
    IF r.raised = "none"
    THEN [done |-> TRUE, raised |-> "none", value |-> r.value, sleep |-> 0, w |-> w]
    ELSE IF LastAttempt(cfg, w.attempt)
    THEN [done |-> TRUE, raised |-> "LLMError", value |-> NoneText, sleep |-> 0, w |-> w]
    ELSE IF Converted(r.raised) # "none"
    THEN [done |-> TRUE, raised |-> Converted(r.raised), value |-> NoneText, sleep |-> 0,
          w |-> w]
    ELSE [done |-> FALSE, raised |-> "none", value |-> NoneText,
          sleep |-> SleepTime(cfg, w.delay),
          w |-> [attempt |-> w.attempt + 1, delay |-> NextDelay(cfg, w.delay)]]

\* One round of the loop of the wrapper the clients use.
retry_with_backoff(w, r) == Wrapper(DefaultConfig, w, r)

\* -------------------------------------------------------------------- clients

\* What the transport does to one network call: it answers with a text (which
\* may be empty, or None), or fails with a message that holds some of the
\* words the clients look for.
Answer(text) == [ok |-> TRUE, text |-> text, words |-> {}]
Failure(words) == [ok |-> FALSE, text |-> NoneText, words |-> words]

\* The error a client raises for a failed call, by the words of the message.
Classify(words) ==
    IF "rate_limit" \in words THEN "RateLimitError"
    ELSE IF "authentication" \in words THEN "AuthenticationError"
    ELSE IF "model" \in words THEN "ModelError"
    ELSE "LLMError"

\* Python truth of a response: None and the empty string are false.
Truthy(text) == text # NoneText /\ text # <<>>

\* The network leg of OpenAIClient.chat, c being the cache the lookup left.
OpenAICreate(c, key, use_cache, out, time, max, io) ==
    IF ~out.ok THEN Outcome(Classify(out.words), NoneText, c, 1)
    ELSE IF use_cache /\ Truthy(out.text)
    THEN Outcome("none", out.text, CacheSet(c, key, out.text, time, max, io), 1)
    ELSE Outcome("none", out.text, c, 1)

\* OpenAIClient.chat under handle_http_errors, g being what global_cache.get
\* returned when use_cache is set.
OpenAIAfterGet(g, key, use_cache, out, time, max, io) ==
    IF use_cache /\ Truthy(g.ret) THEN Outcome("none", g.ret, g.c, 0)
    ELSE OpenAICreate(g.c, key, use_cache, out, time, max, io)

OpenAIChat(c, req, use_cache, out, time, ttl_, max, io) ==
    IF use_cache
    THEN OpenAIAfterGet(CacheGet(c, _generate_key(req.messages, req.model, req.params),
                                 time, ttl_, io),
                        _generate_key(req.messages, req.model, req.params),
                        use_cache, out, time, max, io)
    ELSE OpenAICreate(c, _generate_key(req.messages, req.model, req.params), use_cache, out,
                      time, max, io)

\* The messages GeminiClient.chat walks through before it meets a role it does
\* not support: the user messages among them are sent.
RECURSIVE Supported(_)
Supported(messages) ==
    IF messages = <<>> \/ Head(messages).role \notin {"user", "assistant"} THEN <<>>
    ELSE <<Head(messages)>> \o Supported(Tail(messages))

Sent(messages) == Len(SelectSeq(Supported(messages), LAMBDA msg : msg.role = "user"))

\* GeminiClient.chat under handle_http_errors: no cache is consulted; a role
\* other than user and assistant, or no user message at all, ends in LLMError.
GeminiChat(c, req, out) ==
    IF Sent(req.messages) = 0 THEN Outcome("LLMError", NoneText, c, 0)
    ELSE IF ~out.ok THEN Outcome(Classify(out.words), NoneText, c, 1)
    ELSE IF Len(Supported(req.messages)) < Len(req.messages)
    THEN Outcome("LLMError", NoneText, c, Sent(req.messages))
    ELSE Outcome("none", out.text, c, Sent(req.messages))

\* The words LocalLLMClient.chat looks for in the body of a response that is
\* not a 200: "rate limit" is spelled with a space there.
ClassifyLocal(words) ==
    IF "rate limit" \in words THEN "RateLimitError"
    ELSE IF "authentication" \in words THEN "AuthenticationError"
    ELSE IF "model" \in words THEN "ModelError"
    ELSE "LLMError"

\* LocalLLMClient.chat under handle_http_errors: one POST, no cache.
LocalChat(c, req, out) ==
    IF ~out.ok THEN Outcome(ClassifyLocal(out.words), NoneText, c, 1)
    ELSE Outcome("none", out.text, c, 1)

\* One invocation of the function the wrapper wraps, for the client kind.
ChatOnce(kind, c, req, use_cache, out, time, ttl_, max, io) ==
    CASE kind = "openai" ->
            handle_http_errors(OpenAIChat(c, req, use_cache, out, time, ttl_, max, io))
      [] kind = "gemini" -> handle_http_errors(GeminiChat(c, req, out))
      [] OTHER -> handle_http_errors(LocalChat(c, req, out))

\* create_llm_client: the client kind built for a provider, or the error.
create_llm_client(provider, has_key) ==
    CASE provider = "openai" -> IF has_key THEN "openai" ELSE "ValueError"
      [] provider = "gemini" -> IF has_key THEN "gemini" ELSE "ValueError"
      [] provider = "local" -> "local"
      [] OTHER -> "ValueError"

\* ------------------------------------------------------------------ pipeline

MAX_RETRY_ATTEMPTS == 3

\* The chunks go through _process_chunk_batch in slices of this size, in
\* order, and the slices' results are concatenated: one loop over all chunks.
CHUNK_BATCH_SIZE == 10

\* Model names, cut where process_html looks at them.
GptModel == <<"gpt-", "4o-mini">>
GeminiModel == <<"gemini", "-pro">>
LocalModel == <<"llama2">>

\* The provider process_html routes a model name to.
Provider(model) ==
    IF StartsWith(model, <<"gpt-">>) \/ StartsWith(model, <<"text-">>) THEN "openai"
    ELSE IF StartsWith(model, <<"gemini">>) THEN "gemini"
    ELSE "local"

\* ProcessingOptions with its defaults; temperature counts tenths.
ProcessingOptions(task, model, use_cache) ==
    [task |-> task, language |-> "he", model |-> model, temperature |-> 7,
     max_tokens |-> 2048, extra_prompt |-> NoneText, use_cache |-> use_cache,
     min_text_length |-> 2]

Tasks == {"paraphrase", "summarize", "custom"}

UserPrefix(options) ==
    CASE options.task = "paraphrase" -> <<"Reescribe este texto: ">>
      [] options.task = "summarize" -> <<"Resume este texto: ">>
      [] OTHER -> IF options.extra_prompt = NoneText THEN <<"Procesa este texto:", " ">>
                  ELSE options.extra_prompt \o <<" ">>

\* The system and user messages for a chunk, for a task of Tasks.
_create_prompt_for_task(chunk, options) ==
    <<[role |-> "system",
       content |-> <<options.task, options.language>>
                      \o (IF chunk.is_rtl THEN <<"RTL">> ELSE <<>>)],
      [role |-> "user", content |-> UserPrefix(options) \o chunk.text]>>

\* The keyword arguments _process_chunk_batch gives chat besides use_cache.
ChatParams(options) ==
    [n \in {"temperature", "max_tokens"} |->
        IF n = "temperature" THEN options.temperature ELSE options.max_tokens]

\* get_token_count: OpenAIClient counts the tokens of a text, 0 for None and
\* for the empty string; GeminiClient and LocalLLMClient inherit the body of
\* the protocol, which returns None.
HasTokenCount(kind) == kind \notin {"gemini", "local"}

get_token_count(text) == IF Truthy(text) THEN Len(text) ELSE 0

RECURSIVE SumTokens(_)
SumTokens(messages) ==
    IF messages = <<>> THEN 0
    ELSE get_token_count(Head(messages).content) + SumTokens(Tail(messages))

NoStats ==
    [chunks_processed |-> 0, total_tokens_in |-> 0, total_tokens_out |-> 0,
     processing_time |-> "initial", errors |-> 0, warnings |-> 0, finalized |-> 0]

\* No finally clause.
Unfinalized(stats) == stats

\* The finally clause of process_html.
Finalized(stats) == [stats EXCEPT !.processing_time = "elapsed", !.finalized = @ + 1]

\* What is known of the fragment last worked on: its index, the chat calls
\* the orchestrator made for it, the waits it took, the network calls made
\* for it, whether one failed on authentication and how many followed that,
\* whether every chat call so far ended in RateLimitError, and its state.
NoFragment ==
    [index |-> 0, attempts |-> 0, waits |-> <<>>, net |-> 0, auth |-> FALSE,
     after_auth |-> 0, limited |-> TRUE, state |-> "none"]

\* How fragment i ended: "success" with the response, "skipped" or "blank".
Ended(state, text, auth) == [state |-> state, text |-> text, auth |-> auth]

\* A loop that passes over the chunk after the one that ended.
NextChunkSkipping(o, state, text) ==
    [o EXCEPT !.i = @ + 2, !.retry = 0,
              !.outcome = Append(@, Ended(state, text, o.f.auth)),
              !.f.state = state]

\* The fragment loop moves to the next chunk, chunk i having ended.
NextChunk(o, state, text) ==
    [o EXCEPT !.i = @ + 1, !.retry = 0,
              !.outcome = Append(@, Ended(state, text, o.f.auth)),
              !.f.state = state]

\* The chunk is kept, `times` times over, and counted as that many errors.
Kept(o, chunk, times) ==
    [o EXCEPT !.processed = @ \o [j \in 1..times |-> chunk],
              !.stats.errors = @ + times]

\* A constant wait.
FlatWait(retry_count) == 2

\* wait_time = 2 ** retry_count
BackoffWait(retry_count) == 2 ^ retry_count

\* A handler that goes round the while loop again however often it has.
RateLimitedForever(o, chunk) ==
    [o EXCEPT !.retry = @ + 1, !.f.waits = Append(@, BackoffWait(o.retry + 1))]

\* except RateLimitError: count, wait, and go round the while loop again, or
\* leave it with the retries exhausted.
RateLimited(o, chunk) ==
    IF o.retry + 1 < MAX_RETRY_ATTEMPTS
    THEN [o EXCEPT !.retry = @ + 1, !.f.waits = Append(@, BackoffWait(o.retry + 1))]
    ELSE NextChunk(Kept([o EXCEPT !.f.waits = Append(@, BackoffWait(o.retry + 1))], chunk, 1),
                   "skipped", chunk.text)

\* A try body that builds the processed chunk without the flag.
SucceededUnflagged(o, chunk, response) ==
    NextChunk([o EXCEPT !.stats.total_tokens_out = @ + get_token_count(response),
                        !.stats.chunks_processed = @ + 1,
                        !.processed = Append(@, TextChunk(response, chunk.path, FALSE))],
              "success", response)

\* The try body after chat has returned.
Succeeded(o, chunk, response) ==
    NextChunk([o EXCEPT !.stats.total_tokens_out = @ + get_token_count(response),
                        !.stats.chunks_processed = @ + 1,
                        !.processed = Append(@, TextChunk(response, chunk.path, chunk.is_rtl))],
              "success", response)

\* A failure that starts the batch over.
BrokeRestarting(o, chunk) ==
    [o EXCEPT !.i = 1, !.retry = 0, !.processed = <<>>, !.stats = NoStats, !.outcome = <<>>]

\* The except clauses that break: the chunk is appended and counted there,
\* and once more after the loop, success being still False.
Broke(o, chunk) == NextChunk(Kept(o, chunk, 2), "skipped", chunk.text)

\* The orchestrator after chat has raised `raised` or returned `value`.
AfterChat(o, chunk, raised, value) ==
    IF raised = "none" THEN Succeeded([o EXCEPT !.f.limited = FALSE], chunk, value)
    ELSE IF raised = "RateLimitError" THEN RateLimited(o, chunk)
    ELSE Broke([o EXCEPT !.f.limited = FALSE], chunk)

\* The exceptions inject_text can raise that process_html recovers from.
HTMLProcessingErrors ==
    {"MalformedHTMLError", "EmptyHTMLError", "HTMLTooLargeError", "NodeNotFoundError",
     "InvalidSelectorError"}

\* --------------------------------------------------------------- variables

VARIABLES
    \* extract_text_nodes and inject_text called directly
    d_pc,        \* "init", "extracted", "injected", "failed"
    d_html,      \* the document handed to both
    d_soup,      \* a parsed document handed to process_node directly
    d_min,       \* min_text_length
    d_strict,    \* strict
    d_chunks,    \* the chunk list, as extracted and then rewritten by the caller
    d_out,       \* what inject_text raised and returned
    \* the cache
    metadata,      \* self.metadata of each LLMCache instance
    files,         \* the payload files <key>.txt of the cache directory
    metadata_file, \* metadata.json
    ttl,           \* self.ttl
    max_entries,   \* self.max_entries
    now,           \* time.time()
    c_last,        \* the last cache operation: its arguments and result
    c_hist,        \* the latest set of the caller: its key, response and time
    \* a chat call through a retry-wrapped client
    w,             \* the call in progress: request, loop variables, calls made so far
    k_kind,        \* the client chat is called on directly
    k_use_cache,   \* the use_cache argument of those calls
    k_prev,        \* the call completed before the last one, if one network call answered it
    k_last,        \* the last completed call
    \* process_html
    p_pc,          \* "idle", "start", "fragment", "call", "done"
    p_html,        \* html
    p_options,     \* options
    p_has_key,     \* whether the environment holds the provider's API key
    p_llm,         \* llm: the kind of client created
    p_chunks,      \* chunks
    p_i,           \* the index of the chunk the fragment loop is at
    p_retry,       \* retry_count
    p_processed,   \* processed_chunks
    p_stats,       \* stats
    p_outcome,     \* how each chunk passed so far ended
    p_result,      \* what process_html returned or raised
    frag,          \* the fragment last worked on
    \* a function wrapped by retry_with_backoff, called directly
    r_cfg,         \* the arguments of retry_with_backoff
    r_call         \* the call of the wrapper: loop variables, invocations, sleeps, result

domVars == <<d_pc, d_html, d_soup, d_min, d_strict, d_chunks, d_out>>
cacheVars == <<metadata, files, metadata_file, ttl, max_entries, now, c_last, c_hist>>

clientVars == <<w, k_kind, k_use_cache, k_prev, k_last>>

pipeVars ==
    <<p_pc, p_html, p_options, p_has_key, p_llm, p_chunks, p_i, p_retry, p_processed,
      p_stats, p_outcome, p_result, frag>>

retryVars == <<r_cfg, r_call>>

vars == <<domVars, cacheVars, clientVars, pipeVars, retryVars>>

Instances == {1, 2}

\* The empty function: a directory with no payload file.
NoFiles == [k \in {} |-> <<>>]

NoRequest == [messages |-> <<>>, model |-> <<>>, params |-> <<>>]

\* c_last: the operation, its request and key, what a get returned, whether
\* the key was indexed, whether its age exceeded ttl, whether its payload was
\* on disk and whether reading it fails when the call began, the entries a
\* set evicted or a clear removed, the index a failed set found, whether
\* deleting payload files or writing metadata.json failed during the call,
\* and what the call raised.
NoOp == [op |-> "none", req |-> NoRequest, key |-> <<>>, ret |-> NoneText,
         indexed |-> FALSE, expired |-> FALSE, on_disk |-> FALSE,
         unreadable |-> FALSE, evicted |-> <<>>, index |-> <<>>,
         remove_fails |-> FALSE, save_fails |-> FALSE, raised |-> "none"]

\* No set yet, or a clear since.
NoSet == [key |-> <<>>, response |-> NoneText, time |-> 0]

\* A cache directory just created, with the given configuration.
CacheEmpty(t, m) ==
    /\ metadata = [i \in Instances |-> <<>>]
    /\ files = NoFiles
    /\ metadata_file = <<>>
    /\ ttl = t
    /\ max_entries = m
    /\ now = 0
    /\ c_last = NoOp
    /\ c_hist = NoSet

\* ------------------------------------------- the extractor and the injector

\* Rewritten texts a caller puts into a chunk; the empty string is one.
Rewrites == {<<"X">>, <<"Y", "Z">>, <<>>}

MinLengths == {2, 3}

NoOutput == [raised |-> "none", doc |-> MkTree(<<RootNode(<<>>)>>), errors |-> 0,
             direct |-> TRUE, processed_nodes |-> {}]

DomIdle ==
    /\ d_pc = "idle" /\ d_html = "DocEmpty" /\ d_min = 0 /\ d_strict = FALSE
    /\ d_soup = NoOutput.doc
    /\ d_chunks = <<>> /\ d_out = NoOutput

\* No chat call in progress.
NoCall ==
    [active |-> FALSE, req |-> <<>>, attempt |-> 0, delay |-> INITIAL_DELAY, net |-> 0,
     sleeps |-> <<>>]

NoSummary == [done |-> FALSE, key |-> <<>>, time |-> 0, net |-> 0, raised |-> "none",
              value |-> NoneText]

ClientIdle ==
    /\ w = NoCall /\ k_kind = "none" /\ k_use_cache = FALSE
    /\ k_prev = NoSummary /\ k_last = NoSummary

\* No call of a wrapped function.
NoRetryCall ==
    [active |-> FALSE, done |-> FALSE, attempt |-> 0, delay |-> 0, calls |-> 0,
     sleeps |-> <<>>, last |-> "none", returned |-> FALSE, raised |-> "none",
     value |-> NoneText]

RetryIdle == r_cfg = DefaultConfig /\ r_call = NoRetryCall

NoResult ==
    [kind |-> "none", original |-> FALSE, doc |-> NoOutput.doc, error |-> "none"]

\* process_html not called.
PipeIdle ==
    /\ p_pc = "idle" /\ p_html = "DocEmpty"
    /\ p_options = ProcessingOptions("paraphrase", GptModel, TRUE)
    /\ p_has_key = FALSE /\ p_llm = "none" /\ p_chunks = <<>> /\ p_i = 1 /\ p_retry = 0
    /\ p_processed = <<>> /\ p_stats = NoStats /\ p_outcome = <<>> /\ p_result = NoResult
    /\ frag = NoFragment

DomInit ==
    /\ d_pc = "init"
    /\ d_html \in Documents
    /\ d_soup = NoOutput.doc
    /\ d_min \in MinLengths
    /\ d_strict \in BOOLEAN
    /\ d_chunks = <<>>
    /\ d_out = NoOutput
    /\ CacheEmpty(DEFAULT_TTL, DEFAULT_MAX_ENTRIES)
    /\ ClientIdle
    /\ PipeIdle
    /\ RetryIdle

\* chunks = extract_text_nodes(html, min_text_length)
DomExtract ==
    /\ d_pc = "init"
    /\ IF _validate_html(Source(d_html)) = "ok"
       THEN /\ d_pc' = "extracted"
            /\ d_chunks' = extract_text_nodes(Tree(d_html), d_min)
            /\ d_out' = d_out
       ELSE /\ d_pc' = "failed"
            /\ d_chunks' = <<>>
            /\ d_out' = [d_out EXCEPT !.raised = _validate_html(Source(d_html))]
    /\ UNCHANGED <<d_html, d_soup, d_min, d_strict, cacheVars, clientVars, pipeVars, retryVars>>

\* The caller puts a rewritten text into chunk i.
DomRewrite(i, text) ==
    /\ d_pc = "extracted"
    /\ i \in 1..Len(d_chunks)
    /\ d_chunks[i].text = extract_text_nodes(Tree(d_html), d_min)[i].text
    /\ d_chunks' = [d_chunks EXCEPT ![i].text = text]
    /\ UNCHANGED <<d_pc, d_html, d_soup, d_min, d_strict, d_out, cacheVars, clientVars, pipeVars, retryVars>>

\* Addresses a caller may put into a chunk: one that names no element of any
\* document, and one the selector engine rejects.
Addresses == {<<"X">>, <<"p", ":">>}

\* The caller puts another address into chunk i.
DomReaddress(i, path) ==
    /\ d_pc = "extracted"
    /\ i \in 1..Len(d_chunks)
    /\ d_chunks[i] = extract_text_nodes(Tree(d_html), d_min)[i]
    /\ d_chunks' = [d_chunks EXCEPT ![i].path = path]
    /\ UNCHANGED <<d_pc, d_html, d_soup, d_min, d_strict, d_out, cacheVars, clientVars, pipeVars, retryVars>>

\* inject_text(html, chunks, strict)
DomInject ==
    /\ d_pc = "extracted"
    /\ d_pc' = "injected"
    /\ d_out' = inject_text(Tree(d_html), d_chunks, d_strict)
    /\ UNCHANGED <<d_html, d_soup, d_min, d_strict, d_chunks, cacheVars, clientVars, pipeVars, retryVars>>

DomNext ==
    \/ DomExtract
    \/ \E i \in 1..MaxNode, text \in Rewrites : DomRewrite(i, text)
    \/ \E i \in 1..MaxNode, path \in Addresses : DomReaddress(i, path)
    \/ DomInject

SpecDom == DomInit /\ [][DomNext]_vars

\* What the content-match pass did to the tree `one` that pass one left:
\* the nodes it replaced are no more than the chunks pass one left unresolved,
\* and none of them is a text node that pass one wrote.
FallbackSparing(tree, one, out, unresolved) ==
    LET replaced == {n \in 0..MaxNode : out[n] # one[n]}
        written == {n \in 0..MaxNode : one[n].kind = "text" /\ one[n] # tree[n]}
    IN  /\ Cardinality(replaced) <= Cardinality(unresolved)
        /\ replaced \cap written = {}

\* C34: in the content-match pass each fragment left unresolved by pass one
\* replaces at most one text node, and only text nodes that pass one did not
\* write are candidates.
C34_FallbackOnce ==
    (d_pc = "injected" /\ d_out.raised = "none")
        => FallbackSparing(Tree(d_html),
                           PassOne(InjectStart(Tree(d_html)), ChunkMapKeys(d_chunks), d_chunks,
                                   d_strict).doc,
                           d_out.doc,
                           {i \in 1..Len(d_chunks) : d_chunks[i].path \notin d_out.processed_nodes})

\* ------------------------------------------ process_node on parsed documents

He == <<"h", "e">>
En == <<"e", "n">>
ArEG == <<"a", "r", "-", "E", "G">>
Ltr == <<"l", "t", "r">>
RTL == <<"R", "T", "L">>

\* <div G><p P><b E>t1</b>t2</p>t3</div>
Soup(g, p, e, t1, t2, t3) ==
    MkTree(<<RootNode(<<1>>),
             Elem(Div, NoAttr, g.cls, g.dir, g.lang, 0, <<2, 6>>),
             Elem(P, NoAttr, p.cls, p.dir, p.lang, 1, <<3, 5>>),
             Elem(B, NoAttr, e.cls, e.dir, e.lang, 2, <<4>>),
             TextNode(3, t1), TextNode(2, t2), TextNode(1, t3)>>)

NoAttrs == [cls |-> <<>>, dir |-> NoAttr, lang |-> NoAttr]

\* The attributes of the outer, the middle and the inner element.
OuterAttrs == [cls : {<<>>}, dir : {NoAttr, Rtl}, lang : {NoAttr, He}]
MiddleAttrs == [cls : {<<>>, <<Rtl>>}, dir : {NoAttr, Rtl}, lang : {NoAttr, He, En}]
InnerAttrs ==
    [cls : {<<>>, <<K>>, <<K, <<"a", "r", "t", "l", "b">> >>, <<RTL>>},
     dir : {NoAttr, Rtl, Ltr, RTL},
     lang : {NoAttr, He, En, ArEG}]

\* The texts of a text node: blank, one letter, padded, plain.
Texts == {<<" ">>, <<"a">>, <<" ", "a", "b", " ">>, <<"a", "b", "c">>}

\* The documents with attributes, with min_text_length 2.
AttrSoups ==
    {Soup(g, p, e, Ab, Cd, Ef) : g \in OuterAttrs, p \in MiddleAttrs, e \in InnerAttrs}

\* The documents with texts of every kind.
TextSoups == {Soup(NoAttrs, NoAttrs, NoAttrs, t[1], t[2], t[3]) : t \in Texts \X Texts \X Texts}

SoupInit ==
    /\ d_pc = "init"
    /\ d_html = "DocEmpty"
    /\ \/ d_soup \in AttrSoups /\ d_min = 2
       \/ d_soup \in TextSoups /\ d_min \in 0..3
    /\ d_strict = FALSE
    /\ d_chunks = <<>>
    /\ d_out = NoOutput
    /\ CacheEmpty(DEFAULT_TTL, DEFAULT_MAX_ENTRIES)
    /\ ClientIdle
    /\ PipeIdle
    /\ RetryIdle

\* process_node(soup), after which the chunks are returned
SoupExtract ==
    /\ d_pc = "init"
    /\ d_pc' = "extracted"
    /\ d_chunks' = extract_text_nodes(d_soup, d_min)
    /\ UNCHANGED <<d_html, d_soup, d_min, d_strict, d_out, cacheVars, clientVars, pipeVars,
                   retryVars>>

SoupNext == SoupExtract

SpecSoup == SoupInit /\ [][SoupNext]_vars

\* The text nodes that bear a fragment: trimmed text non-empty and long enough,
\* in document order.
Bearing(doc, min) ==
    SelectSeq(SelectSeq(Preorder(doc, 0), LAMBDA n : doc[n].kind = "text"),
              LAMBDA n : Strip(doc[n].text) # <<>> /\ Len(Strip(doc[n].text)) >= min)

\* The element has dir="rtl", or one of its ancestors has.
DirRule(doc, el) ==
    \E a \in {el} \cup {Ancestors(doc, el)[i] : i \in 1..Len(Ancestors(doc, el))} :
        doc[a].dir = Rtl

\* The element's lang, or its parent's when it has none, starts with a known code.
LangRule(doc, el) ==
    LET own == doc[el].lang
        lang == IF own # NoAttr THEN own
                ELSE IF doc[el].parent >= 0 THEN doc[doc[el].parent].lang ELSE NoAttr
    IN  \E r \in {He, <<"a", "r">>, <<"f", "a">>, <<"u", "r">>} : StartsWith(lang, r)

\* C32: a fragment is flagged right-to-left exactly when its element or an
\* ancestor has dir="rtl", or the element's lang (its parent's when it has none)
\* starts with he, ar, fa or ur, or one of the element's own class names
\* contains "rtl" as written.
C32_RtlExactly ==
    d_pc = "extracted"
        => \A i \in 1..Len(d_chunks) :
               LET el == d_soup[Bearing(d_soup, d_min)[i]].parent
               IN  d_chunks[i].is_rtl
                       <=> \/ DirRule(d_soup, el)
                           \/ LangRule(d_soup, el)
                           \/ \E c \in 1..Len(d_soup[el].cls) : IsSubstr(Rtl, d_soup[el].cls[c])

\* C32, amended: the same, with the class names compared in lower case.
C32_RtlAnyCase ==
    d_pc = "extracted"
        => \A i \in 1..Len(d_chunks) :
               LET el == d_soup[Bearing(d_soup, d_min)[i]].parent
               IN  d_chunks[i].is_rtl
                       <=> \/ DirRule(d_soup, el)
                           \/ LangRule(d_soup, el)
                           \/ \E c \in 1..Len(d_soup[el].cls) :
                                  IsSubstr(Rtl, Lower(d_soup[el].cls[c]))

\* The inner fragment is flagged through the language of its parent alone, and
\* the middle one is not flagged although the element below it is.
C32_Witness ==
    /\ d_pc = "extracted" /\ Len(d_chunks) = 3
    /\ d_soup[3].lang = NoAttr /\ d_soup[3].dir = NoAttr /\ d_soup[3].cls = <<>>
    /\ d_soup[2].lang = He /\ d_soup[2].dir = NoAttr /\ d_soup[1].dir = NoAttr
    /\ d_chunks[1].is_rtl
    /\ ~d_chunks[3].is_rtl

\* C33: extract_text_nodes returns one fragment per text node whose trimmed
\* text is non-empty and at least min_text_length long, in depth-first document
\* order, none for any other text node, each with the trimmed text.
C33_OnePerTextNode ==
    d_pc = "extracted"
        => /\ Len(d_chunks) = Len(Bearing(d_soup, d_min))
           /\ \A i \in 1..Len(d_chunks) :
                  d_chunks[i].text = Strip(d_soup[Bearing(d_soup, d_min)[i]].text)

\* A blank node and a node shorter than min_text_length after trimming are
\* passed over, and the fragment of the last node is the only one.
C33_Witness ==
    /\ d_pc = "extracted" /\ d_min = 3
    /\ d_soup[4].text = <<" ">>
    /\ d_soup[5].text = <<" ", "a", "b", " ">>
    /\ Len(d_chunks) = 1 /\ d_chunks[1].text = <<"a", "b", "c">>

\* C1: for a document that passes the emptiness and size checks, injecting the
\* fragments just extracted, texts unmodified, returns the original document
\* up to whitespace normalization.
C1_RoundTrip ==
    (d_pc = "injected" /\ d_chunks = extract_text_nodes(Tree(d_html), d_min))
        => /\ d_out.raised = "none"
           /\ Normalized(d_out.doc) = Normalized(Tree(d_html))

\* C3: injection changes text only: when every element pass one resolved held
\* a text node of its own, no element is removed or replaced, and the tree of
\* elements of the output is that of the input.
C3_ElementsKept ==
    (d_pc = "injected" /\ d_out.raised = "none" /\ d_out.direct)
        => ElementTree(d_out.doc) = ElementTree(Tree(d_html))

C25_ValidationOrder ==
    LET html == Source(d_html)
        empty == html.len = 0 \/ html.striplen < 10
    IN  d_pc # "init"
            => /\ d_out.raised = "EmptyHTMLError" <=> empty
               /\ d_out.raised = "HTMLTooLargeError" <=> (~empty /\ html.len > 10 * 1024 * 1024)
               /\ d_out.raised \in {"EmptyHTMLError", "HTMLTooLargeError"}
                     => d_pc = "failed" /\ d_chunks = <<>>

\* A document over the size whose stripped length is under the minimum was
\* refused as empty.
C25_Witness ==
    /\ d_pc = "failed" /\ d_out.raised = "EmptyHTMLError"
    /\ Source(d_html).len > MAX_HTML_SIZE
    /\ Source(d_html).striplen > 0

\* ------------------------------------------------- the cache, used directly

\* Bounds of the cache runs: the clock stops at MaxTime.
MaxTime == 2

TtlChoices == {1}
MaxEntriesChoices == {1, 2}

UserMessage(content) == <<[role |-> "user", content |-> content]>>

Request(messages, model, params) == [messages |-> messages, model |-> model, params |-> params]

Temperature == [n \in {"temperature"} |-> 7]
WithTimeout == [n \in {"temperature", "timeout"} |-> IF n = "timeout" THEN 30 ELSE 7]

\* The requests of the cache runs: three message lists for one model, and one
\* of them again with a timeout among its parameters.
CacheRequests ==
    {Request(UserMessage(<<"a">>), GptModel, Temperature),
     Request(UserMessage(<<"a">>), GptModel, WithTimeout),
     Request(UserMessage(<<"b">>), GptModel, Temperature),
     Request(UserMessage(<<"c">>), GptModel, Temperature)}

CacheResponses == {<<"X">>}

KeyOf(req) == _generate_key(req.messages, req.model, req.params)

CacheOf(i) == Cache(metadata[i], files, metadata_file)

CacheInit ==
    /\ DomIdle
    /\ ClientIdle
    /\ PipeIdle
    /\ RetryIdle
    /\ \E t \in TtlChoices, m \in MaxEntriesChoices : CacheEmpty(t, m)

\* Instance i takes over the cache c an operation leaves.
Install(i, c) ==
    /\ metadata' = [metadata EXCEPT ![i] = c.metadata]
    /\ files' = c.files
    /\ metadata_file' = c.metadata_file

\* cache.get(messages, model, params)
Get(i, req, io) ==
    LET key == KeyOf(req)
        r == CacheGet(CacheOf(i), key, now, ttl, io)
        indexed == key \in Keys(metadata[i])
    IN  /\ Install(i, r.c)
        /\ c_last' = [NoOp EXCEPT !.op = "get", !.req = req, !.key = key, !.ret = r.ret,
                                  !.indexed = indexed,
                                  !.on_disk = key \in DOMAIN files,
                                  !.unreadable = indexed /\ key \in DOMAIN files /\ io.read_fails,
                                  !.remove_fails = io.remove_fails,
                                  !.expired = /\ indexed
                                              /\ now - Lookup(metadata[i], key).timestamp > ttl]
        /\ UNCHANGED <<ttl, max_entries, now, domVars, retryVars, pipeVars, clientVars>>

\* cache.set(messages, model, params, response)
Set(i, req, response, io) ==
    LET key == KeyOf(req)
        c == CacheSet(CacheOf(i), key, response, now, max_entries, io)
        before == Stored(CacheOf(i), key, response, now).metadata
    IN  /\ Install(i, c)
        /\ c_last' = [NoOp EXCEPT !.op = IF io.write_fails THEN "set failed" ELSE "set",
                                  !.req = req,
                                  !.key = key,
                                  !.index = IF io.write_fails THEN metadata[i] ELSE <<>>,
                                  !.save_fails = io.save_fails,
                                  !.raised = CacheSetRaises(io),
                                  !.indexed = key \in Keys(metadata[i]),
                                  !.remove_fails = io.remove_fails,
                                  !.evicted = IF io.write_fails THEN <<>>
                                              ELSE SelectSeq(before,
                                                     LAMBDA e : e.key \notin Keys(c.metadata))]
        /\ UNCHANGED <<ttl, max_entries, now, domVars, retryVars, pipeVars, clientVars>>

\* cache.clear()
Clear(i, io) ==
    /\ Install(i, CacheClear(CacheOf(i), io))
    /\ c_last' = [NoOp EXCEPT !.op = "clear", !.evicted = metadata[i],
                              !.remove_fails = io.remove_fails,
                              !.save_fails = io.save_fails]
    /\ UNCHANGED <<ttl, max_entries, now, domVars, retryVars, pipeVars, clientVars>>

\* LLMCache(cache_dir) is built again over the directory.
Load(i) ==
    /\ metadata' = [metadata EXCEPT ![i] = _load_metadata(CacheOf(i))]
    /\ c_last' = [NoOp EXCEPT !.op = "load"]
    /\ UNCHANGED <<files, metadata_file, ttl, max_entries, now, domVars, retryVars, pipeVars, clientVars>>

\* Time passes.
Tick ==
    /\ now < MaxTime
    /\ now' = now + 1
    /\ UNCHANGED <<metadata, files, metadata_file, ttl, max_entries, c_last, c_hist, domVars, retryVars,
                   pipeVars, clientVars>>

CacheNext ==
    /\ \/ \E req \in CacheRequests, io \in GetOutcomes : Get(1, req, io)
       \/ \E req \in CacheRequests, response \in CacheResponses, io \in SetOutcomes :
             Set(1, req, response, io)
       \/ \E io \in ClearOutcomes : Clear(1, io)
       \/ Tick
    /\ UNCHANGED c_hist

SpecCache == CacheInit /\ [][CacheNext]_vars

\* C5: a get never returns the response of an entry whose age exceeds ttl,
\* even when the payload is still on disk: it returns None and purges the
\* entry (the key leaves the index, and the payload file is deleted unless
\* deleting it fails).
C5_ExpiredNeverReturned ==
    (c_last.op = "get" /\ c_last.expired)
        => /\ c_last.ret = NoneText
           /\ c_last.key \notin Keys(metadata[1])
           /\ (c_last.key \in DOMAIN files => c_last.remove_fails)

\* An expired entry was looked up and its payload is still on disk.
C5_Witness ==
    /\ c_last.op = "get" /\ c_last.expired /\ c_last.ret = NoneText
    /\ c_last.key \in DOMAIN files

\* C6: after every completed set the index holds at most max_entries entries.
C6_IndexBounded ==
    c_last.op = "set" => Len(metadata[1]) <= max_entries

\* A set that had to evict has completed and the index is full.
C6_Witness ==
    /\ c_last.op = "set" /\ c_last.evicted # <<>>
    /\ Len(metadata[1]) = max_entries

Survivors == {metadata[1][j] : j \in 1..Len(metadata[1])}

Evicted == {c_last.evicted[j] : j \in 1..Len(c_last.evicted)}

\* The entries a set evicted are count - max_entries many and no survivor is
\* strictly older than one of them.
EvictedOldest ==
    /\ Len(c_last.evicted) = Len(metadata[1]) + Len(c_last.evicted) - max_entries
    /\ \A e \in Evicted, s \in Survivors : ~(s.timestamp < e.timestamp)

\* C7 as stated: when a set pushes the count above max_entries, the evicted
\* entries are exactly the count - max_entries oldest, and the index entry and
\* the payload of each evicted key are removed.
C7_EvictsOldestWithPayload ==
    (c_last.op = "set" /\ c_last.evicted # <<>>)
        => /\ EvictedOldest
           /\ \A e \in Evicted : e.key \notin Keys(metadata[1]) /\ e.key \notin DOMAIN files

\* C7 amended: the evicted entries are exactly the count - max_entries oldest
\* and leave the index; the payload of each is removed unless deleting the
\* file fails, in which case it stays on disk, unindexed.
C7_EvictsOldest ==
    (c_last.op = "set" /\ c_last.evicted # <<>>)
        => /\ EvictedOldest
           /\ \A e \in Evicted :
                 /\ e.key \notin Keys(metadata[1])
                 /\ (e.key \in DOMAIN files => c_last.remove_fails)

\* A set evicted an entry that was not the first of the index, while a newer
\* entry inserted before it survives; its payload is gone.
C7_Witness ==
    /\ c_last.op = "set" /\ Len(c_last.evicted) = 1 /\ Len(metadata[1]) = 2
    /\ metadata[1][1].timestamp > c_last.evicted[1].timestamp
    /\ c_last.evicted[1].key \notin DOMAIN files

\* Two requests agree on what C21 lets the key depend on: the roles and
\* contents of the messages in order, the model, and the four parameters.
SameKeyed(a, b) ==
    /\ Len(a.messages) = Len(b.messages)
    /\ \A j \in 1..Len(a.messages) :
          /\ a.messages[j].role = b.messages[j].role
          /\ a.messages[j].content = b.messages[j].content
    /\ a.model = b.model
    /\ \A n \in {"temperature", "max_tokens", "top_p", "top_k"} :
          /\ n \in DOMAIN a.params <=> n \in DOMAIN b.params
          /\ n \in DOMAIN a.params => a.params[n] = b.params[n]

\* C21: the key a get or a set used is the key of every request that agrees
\* with its request on the messages, the model and temperature, max_tokens,
\* top_p and top_k, whatever other parameters (a timeout) either carries; so
\* after a set every such request finds the entry in the index.
C21_KeyFromRelevantOnly ==
    c_last.op \in {"get", "set"}
        => \A b \in CacheRequests :
              SameKeyed(c_last.req, b)
                  => /\ KeyOf(b) = c_last.key
                     /\ c_last.op = "set" => KeyOf(b) \in Keys(metadata[1])

\* A get whose request carries a timeout returned the response of the entry
\* that the request without the timeout addresses.
C21_Witness ==
    /\ c_last.op = "get" /\ c_last.ret # NoneText
    /\ "timeout" \in DOMAIN c_last.req.params
    /\ \E b \in CacheRequests :
          /\ "timeout" \notin DOMAIN b.params
          /\ SameKeyed(c_last.req, b)
          /\ KeyOf(b) \in Keys(metadata[1])
          /\ files[KeyOf(b)] = c_last.ret

\* ------------------------------------ the cache directory across instances

\* The requests of these runs: two message lists, one of them again with a
\* timeout among its parameters.
StoreRequests ==
    {Request(UserMessage(<<"a">>), GptModel, Temperature),
     Request(UserMessage(<<"a">>), GptModel, WithTimeout),
     Request(UserMessage(<<"b">>), GptModel, Temperature)}

\* The cache with every failure of the file system, and with the instance
\* built again over its directory.
StoreNext ==
    /\ \/ \E req \in StoreRequests, io \in GetOutcomes : Get(1, req, io)
       \/ \E req \in StoreRequests, response \in CacheResponses, io \in SetOutcomes \cup {SaveFails} :
             Set(1, req, response, io)
       \/ \E io \in ClearOutcomes \cup {SaveFails} : Clear(1, io)
       \/ Load(1)
       \/ Tick
    /\ UNCHANGED c_hist

SpecStore == CacheInit /\ [][StoreNext]_vars

\* C22: a get of an indexed key whose payload is missing or cannot be read
\* returns None and removes the key from the index; a get returns a response
\* only when the key was indexed, not expired, and its payload was on disk
\* and readable.
C22_BrokenEntryPurged ==
    c_last.op = "get"
        => /\ (c_last.indexed /\ (~c_last.on_disk \/ c_last.unreadable))
                 => /\ c_last.ret = NoneText
                    /\ c_last.key \notin Keys(metadata[1])
           /\ c_last.ret # NoneText
                 => /\ c_last.indexed /\ ~c_last.expired
                    /\ c_last.on_disk /\ ~c_last.unreadable

\* A get found its key in the index, within ttl, with no payload on disk.
C22_Witness ==
    /\ c_last.op = "get" /\ c_last.indexed /\ ~c_last.expired /\ ~c_last.on_disk
    /\ c_last.ret = NoneText
    /\ c_last.key \notin Keys(metadata[1])

\* C23: a set whose payload write fails raises nothing and leaves the index
\* exactly as it found it; a set whose write of metadata.json fails raises
\* nothing.
C23_FailedWriteSilent ==
    /\ c_last.op = "set failed"
          => /\ c_last.raised = "none"
             /\ metadata[1] = c_last.index
    /\ (c_last.op = "set" /\ c_last.save_fails) => c_last.raised = "none"

\* The payload write of a set for a new key failed while the index held
\* another entry.
C23_Witness ==
    /\ c_last.op = "set failed" /\ ~c_last.indexed
    /\ c_last.index # <<>>
    /\ c_last.key \notin Keys(metadata[1])

\* The entries the last clear found in the index.
Cleared == {c_last.evicted[j] : j \in 1..Len(c_last.evicted)}

\* With an empty index every get returns None and leaves the index empty.
GetsReturnNone ==
    \A req \in StoreRequests, io \in GetOutcomes :
        LET r == CacheGet(CacheOf(1), KeyOf(req), now, ttl, io)
        IN  r.ret = NoneText /\ r.c.metadata = <<>>

\* C24 as stated: after clear the index is empty, no payload of a previously
\* indexed entry remains, and every get returns None until the next set.
C24_ClearRemovesAll ==
    /\ c_last.op = "clear"
          => /\ metadata[1] = <<>>
             /\ \A e \in Cleared : e.key \notin DOMAIN files
    /\ metadata[1] = <<>> => GetsReturnNone

\* C24 amended: after clear the index is empty and every get returns None
\* until the next set; the payload of each previously indexed entry is
\* removed unless deleting the file fails, in which case it stays on disk,
\* unindexed.
C24_ClearEmptiesIndex ==
    /\ c_last.op = "clear"
          => /\ metadata[1] = <<>>
             /\ \A e \in Cleared : e.key \in DOMAIN files => c_last.remove_fails
    /\ metadata[1] = <<>> => GetsReturnNone

\* A clear of a cache with two entries has completed and the payloads are
\* gone from the directory.
C24_Witness ==
    /\ c_last.op = "clear" /\ Len(c_last.evicted) = 2
    /\ metadata[1] = <<>>
    /\ \A e \in Cleared : e.key \notin DOMAIN files

\* --------------------------------------------- two runs over one directory

\* The requests of these runs.
SharedRequests ==
    {Request(UserMessage(<<"a">>), GptModel, Temperature),
     Request(UserMessage(<<"b">>), GptModel, Temperature)}

\* Two LLMCache instances built over the same empty directory, each called
\* by its own run; the file system never fails.
SharedNext ==
    /\ \/ \E i \in Instances, req \in SharedRequests : Get(i, req, IoOk)
       \/ \E i \in Instances, req \in SharedRequests, response \in CacheResponses :
             Set(i, req, response, IoOk)
       \/ Tick
    /\ UNCHANGED c_hist

SpecShared == CacheInit /\ [][SharedNext]_vars

\* C35: for any interleaving of get and set by two runs over one cache
\* directory, after each completed operation every key in the persisted index
\* has a payload record and every payload record has an entry in the persisted
\* index.
C35_IndexMatchesPayloads ==
    c_last.op \in {"get", "set"} => Keys(metadata_file) = DOMAIN files

\* ------------------------------------------- one run, no file system failure

PlainRequests ==
    {Request(UserMessage(<<"a">>), GptModel, Temperature),
     Request(UserMessage(<<"b">>), GptModel, Temperature),
     Request(UserMessage(<<"c">>), GptModel, Temperature)}

\* The responses of these runs; one holds a line ending as a model may send it.
PlainResponses == {<<"X">>, <<"Y", "Z">>, <<"Y", Cr, Lf>>}

\* One instance over a directory that starts empty; the clock never goes
\* back and no file operation fails.
PlainNext ==
    \/ \E req \in PlainRequests : Get(1, req, IoOk) /\ UNCHANGED c_hist
    \/ \E req \in PlainRequests, response \in PlainResponses :
          /\ Set(1, req, response, IoOk)
          /\ c_hist' = [key |-> KeyOf(req), response |-> response, time |-> now]
    \/ Clear(1, IoOk) /\ c_hist' = NoSet
    \/ Tick

SpecPlain == CacheInit /\ [][PlainNext]_vars

\* C38: in one process, from an empty cache and without I/O failure, after
\* every completed get, set or clear the payload records on disk are exactly
\* the keys of the in-memory index.
C38_PayloadsAreIndexKeys ==
    c_last.op \in {"get", "set", "clear"} => DOMAIN files = Keys(metadata[1])

\* A get has just purged an expired entry while another entry stays.
C38_Witness ==
    /\ c_last.op = "get" /\ c_last.expired
    /\ c_last.key \notin DOMAIN files
    /\ DOMAIN files # {}

\* C39: with max_entries >= 1, a get for the request of the latest set, no
\* later than ttl after it, returns exactly the response of that set; sets for
\* other keys before it and a set for the same key replaced by it do not
\* matter.
C39_GetAfterSet ==
    (/\ c_last.op = "get" /\ c_hist # NoSet
     /\ c_last.key = c_hist.key
     /\ now - c_hist.time <= ttl)
        => c_last.ret = c_hist.response

\* C40: a get that hits changes nothing in the cache: the index in memory,
\* the index on disk and the payloads stay as they were, so the timestamp of
\* an entry is the time of the last set of its key.
C40_HitChangesNothing ==
    /\ []((c_hist # NoSet /\ c_hist.key \in Keys(metadata[1]))
              => Lookup(metadata[1], c_hist.key).timestamp = c_hist.time)
    /\ [][(c_last'.op = "get" /\ c_last'.ret # NoneText)
              => UNCHANGED <<metadata, files, metadata_file>>]_vars

\* A get returned the response of an entry set at an earlier time.
C40_Witness ==
    /\ c_last.op = "get" /\ c_last.ret # NoneText
    /\ c_last.key = c_hist.key
    /\ c_hist.time < now

\* -------------------------------------------------- a client, used directly

\* What the transport may do to a call.
TransportOutcomes ==
    {Answer(<<"X">>), Answer(<<>>), Answer(NoneText),
     Failure({"rate_limit", "rate limit", "model"}), Failure({"authentication"}),
     Failure({"model"}), Failure({})}

\* What the transport does in the client runs.
ClientOutcomes == {Answer(<<"X">>), Answer(<<>>), Failure({"rate_limit", "rate limit"})}

\* The file system failures a chat call may meet in the cache.
ChatIo == {IoOk, [IoOk EXCEPT !.write_fails = TRUE]}

ModelOf(kind) ==
    CASE kind = "openai" -> GptModel
      [] kind = "gemini" -> GeminiModel
      [] OTHER -> LocalModel

\* The requests of the client runs: two user messages, one of them again with
\* a timeout among its parameters.
ClientRequests(kind) ==
    {Request(UserMessage(<<"a">>), ModelOf(kind), Temperature),
     Request(UserMessage(<<"a">>), ModelOf(kind), WithTimeout),
     Request(UserMessage(<<"b">>), ModelOf(kind), Temperature)}

ClientInit ==
    /\ DomIdle
    /\ PipeIdle
    /\ RetryIdle
    /\ CacheEmpty(1, 2)
    /\ w = NoCall
    /\ k_kind \in {"openai", "gemini", "local"}
    /\ k_use_cache \in BOOLEAN
    /\ k_prev = NoSummary
    /\ k_last = NoSummary

\* The call record after one more invocation with outcome r, the wrapper
\* going on as step says.
Invoked(call, r, step) ==
    [call EXCEPT !.attempt = step.w.attempt,
                 !.delay = step.w.delay,
                 !.net = @ + r.net,
                 !.sleeps = IF step.sleep > 0 THEN Append(@, step.sleep) ELSE @]

Loop(call) == [attempt |-> call.attempt, delay |-> call.delay]

\* chat(messages, use_cache=k_use_cache, **params) is entered.
ClientBegin(req) ==
    /\ ~w.active
    /\ w' = [NoCall EXCEPT !.active = TRUE, !.req = req]
    /\ UNCHANGED <<k_kind, k_use_cache, k_prev, k_last, cacheVars, domVars, retryVars, pipeVars>>

Summary(call, step, time) ==
    [done |-> TRUE, key |-> KeyOf(call.req), time |-> time, net |-> call.net,
     raised |-> step.raised, value |-> step.value]

\* The wrapper has seen the outcome r of an invocation and decided step.
ClientSettle(r, step, call) ==
    /\ Install(1, r.c)
    /\ w' = IF step.done THEN NoCall ELSE call
    /\ k_last' = IF step.done THEN Summary(call, step, now) ELSE k_last
    /\ k_prev' = IF ~step.done THEN k_prev
                 ELSE IF k_last.raised = "none" /\ k_last.net = 1 THEN k_last
                 ELSE NoSummary
    /\ UNCHANGED <<k_kind, k_use_cache, ttl, max_entries, now, c_last, c_hist, domVars, retryVars, pipeVars>>

ClientInvoked(r, step) == ClientSettle(r, step, Invoked(w, r, step))

ClientWrapped(r) == ClientInvoked(r, retry_with_backoff(Loop(w), r))

\* The wrapper invokes the client's chat once more.
ClientAttempt(out, io) ==
    /\ w.active
    /\ ClientWrapped(ChatOnce(k_kind, CacheOf(1), w.req, k_use_cache, out, now, ttl,
                              max_entries, io))

ClientTick ==
    /\ ~w.active
    /\ Tick

ClientNext ==
    \/ \E req \in ClientRequests(k_kind) : ClientBegin(req)
    \/ \E out \in ClientOutcomes, io \in ChatIo : ClientAttempt(out, io)
    \/ ClientTick

SpecClient == ClientInit /\ [][ClientNext]_vars

\* C4: with caching enabled, whichever backend the client talks to, when a
\* request that was answered by one network call is issued again within the
\* time-to-live, the second call makes no network call and returns the first
\* call's response: the two cause exactly one network call.
C4_SecondFromCache ==
    (/\ k_use_cache /\ k_prev.done /\ k_last.done
     /\ k_prev.raised = "none" /\ k_prev.net = 1
     /\ k_last.key = k_prev.key
     /\ k_last.time - k_prev.time <= ttl)
        => /\ k_last.net = 0
           /\ k_last.raised = "none"
           /\ k_last.value = k_prev.value

\* C37: the error a retry-wrapped chat call delivers keeps the classification
\* of the underlying failure: a call whose every attempt met a rate-limit
\* failure of the transport (the only failure of these runs) ends in
\* RateLimitError.
C37_ClassificationKept ==
    (k_last.done /\ k_last.raised # "none" /\ k_last.net = MAX_RETRIES + 1)
        => k_last.raised = "RateLimitError"

\* ------------------------------------------------------------ process_html

\* The documents, tasks and models process_html is run on.
PipeDocuments ==
    {"DocSimple", "DocMixed", "DocElemFirst", "DocSameClass", "DocTwins", "DocRootText",
     "DocNested", "DocRtl", "DocEmpty", "DocTiny", "DocNoText", "DocHuge", "DocAtCap"}

PipeTasks == {"paraphrase", "translate"}

PipeModels == {GptModel, GeminiModel, LocalModel}

Init ==
    /\ DomIdle
    /\ CacheEmpty(DEFAULT_TTL, DEFAULT_MAX_ENTRIES)
    /\ ClientIdle
    /\ RetryIdle
    /\ p_pc = "start"
    /\ p_html \in PipeDocuments
    /\ \E task \in PipeTasks, model \in PipeModels, use_cache \in BOOLEAN :
            p_options = ProcessingOptions(task, model, use_cache)
    /\ p_has_key \in BOOLEAN
    /\ p_llm = "none" /\ p_chunks = <<>> /\ p_i = 1 /\ p_retry = 0
    /\ p_processed = <<>> /\ p_stats = NoStats /\ p_outcome = <<>> /\ p_result = NoResult
    /\ frag = NoFragment

\* The loop state of the orchestrator.
Orch ==
    [i |-> p_i, retry |-> p_retry, processed |-> p_processed, stats |-> p_stats,
     outcome |-> p_outcome, f |-> frag]

\* The orchestrator goes on at pc with the loop state o and the chat call.
Goes(pc, o, call) ==
    /\ p_pc' = pc
    /\ p_i' = o.i /\ p_retry' = o.retry /\ p_processed' = o.processed
    /\ p_stats' = o.stats /\ p_outcome' = o.outcome /\ frag' = o.f
    /\ w' = call
    /\ UNCHANGED <<p_html, p_options, p_has_key, p_llm, p_chunks, p_result>>
    /\ UNCHANGED <<k_kind, k_use_cache, k_prev, k_last, ttl, max_entries, now, c_last, c_hist, domVars, retryVars>>

\* process_html is left, returning or raising, through its finally clause.
Leaves(result, stats) ==
    /\ p_pc' = "done"
    /\ p_result' = result
    /\ p_stats' = Finalized(stats)
    /\ UNCHANGED <<p_html, p_options, p_has_key, p_llm, p_chunks, p_i, p_retry,
                   p_processed, p_outcome, frag>>
    /\ UNCHANGED <<domVars, retryVars, cacheVars, clientVars>>

ProcessingResult(original, doc) ==
    [kind |-> "returned", original |-> original, doc |-> doc, error |-> "none"]

PipelineError == [NoResult EXCEPT !.kind = "raised", !.error = "PipelineError"]

Counted(stats, field) == [stats EXCEPT ![field] = @ + 1]

\* A start that goes on to the client and the batches with no chunk.
StartedWithoutChunks(v, chunks, llm) ==
    IF v = "EmptyHTMLError"
    THEN Leaves(ProcessingResult(TRUE, Tree(p_html)), Counted(p_stats, "warnings"))
    ELSE IF v # "ok" THEN Leaves(PipelineError, Counted(p_stats, "errors"))
    ELSE IF llm = "ValueError" THEN Leaves(PipelineError, Counted(p_stats, "errors"))
    ELSE /\ p_pc' = "fragment"
         /\ p_chunks' = chunks
         /\ p_llm' = llm
         /\ UNCHANGED <<p_html, p_options, p_has_key, p_i, p_retry, p_processed, p_stats,
                        p_outcome, p_result, frag>>
         /\ UNCHANGED <<domVars, retryVars, cacheVars, clientVars>>

\* process_html as far as the first batch: v is what _validate_html found,
\* chunks the chunks extracted, llm what create_llm_client gave.
Started(v, chunks, llm) ==
    IF v = "EmptyHTMLError"
    THEN Leaves(ProcessingResult(TRUE, Tree(p_html)), Counted(p_stats, "warnings"))
    ELSE IF v # "ok" THEN Leaves(PipelineError, Counted(p_stats, "errors"))
    ELSE IF chunks = <<>> THEN Leaves(ProcessingResult(TRUE, Tree(p_html)), p_stats)
    ELSE IF llm = "ValueError" THEN Leaves(PipelineError, Counted(p_stats, "errors"))
    ELSE /\ p_pc' = "fragment"
         /\ p_chunks' = chunks
         /\ p_llm' = llm
         /\ UNCHANGED <<p_html, p_options, p_has_key, p_i, p_retry, p_processed, p_stats,
                        p_outcome, p_result, frag>>
         /\ UNCHANGED <<domVars, retryVars, cacheVars, clientVars>>

Start ==
    /\ p_pc = "start"
    /\ Started(_validate_html(Source(p_html)),
               extract_text_nodes(Tree(p_html), p_options.min_text_length),
               create_llm_client(Provider(p_options.model), p_has_key))

\* The loop state when the for loop or the while loop comes to a chunk.
Began(o) ==
    IF o.retry = 0
    THEN [o EXCEPT !.f = [NoFragment EXCEPT !.index = o.i, !.state = "attempting"]]
    ELSE o

\* chat is called with the prompt: tokens_in is counted first.
Calls(o, prompt) ==
    Goes("call",
         [o EXCEPT !.stats.total_tokens_in = @ + SumTokens(prompt), !.f.attempts = @ + 1],
         IF p_llm = "protocol" THEN w
         ELSE [NoCall EXCEPT !.active = TRUE,
                             !.req = Request(prompt, p_options.model, ChatParams(p_options))])

Attempted(o, chunk) ==
    IF o.retry = 0 /\ Strip(chunk.text) = <<>>
    THEN Goes("fragment",
              NextChunk([o EXCEPT !.processed = Append(@, chunk)], "blank", chunk.text), w)
    ELSE IF p_options.task \notin Tasks \/ ~HasTokenCount(p_llm)
    THEN Goes("fragment", Broke([o EXCEPT !.f.limited = FALSE], chunk), w)
    ELSE Calls(o, _create_prompt_for_task(chunk, p_options))

\* The fragment loop comes to chunk p_i, or goes round its while loop again,
\* and gets as far as calling chat.
Attempt ==
    /\ p_pc = "fragment"
    /\ p_i <= Len(p_chunks)
    /\ Attempted(Began(Orch), p_chunks[p_i])
    /\ UNCHANGED <<metadata, files, metadata_file>>

\* The loop state with the network calls of one invocation counted.
Networked(o, r) ==
    [o EXCEPT !.f.net = @ + r.net,
              !.f.after_auth = IF o.f.auth THEN @ + r.net ELSE @,
              !.f.auth = @ \/ r.raised = "AuthenticationError"]

CallSettle(r, step, o) ==
    /\ Install(1, r.c)
    /\ IF step.done
       THEN Goes("fragment", AfterChat(o, p_chunks[p_i], step.raised, step.value), NoCall)
       ELSE Goes("call", o, Invoked(w, r, step))

CallInvoked(r, step) == CallSettle(r, step, Networked(Orch, r))

CallWrapped(r) == CallInvoked(r, retry_with_backoff(Loop(w), r))

\* The retry wrapper invokes the client's chat once; when the wrapper is done
\* the orchestrator handles what it returned or raised.
Call(out, io) ==
    /\ p_pc = "call"
    /\ p_llm # "protocol"
    /\ CallWrapped(ChatOnce(p_llm, CacheOf(1), w.req, p_options.use_cache, out, now, ttl,
                            max_entries, io))

Reinjected(out) ==
    IF out.raised = "none" THEN Leaves(ProcessingResult(FALSE, out.doc), p_stats)
    ELSE IF out.raised \in HTMLProcessingErrors
    THEN Leaves(ProcessingResult(TRUE, Tree(p_html)), Counted(p_stats, "errors"))
    ELSE Leaves(PipelineError, Counted(p_stats, "errors"))

\* The batches are done: inject_text(html, processed_chunks, strict=False).
Finish ==
    /\ p_pc = "fragment"
    /\ p_i > Len(p_chunks)
    /\ p_llm # "protocol"
    /\ Reinjected(inject_text(Tree(p_html), p_processed, FALSE))

Next ==
    \/ Start
    \/ Attempt
    \/ \E out \in TransportOutcomes, io \in ChatIo : Call(out, io)
    \/ Finish

Spec == Init /\ [][Next]_vars

\* The element chunk i was extracted from, in the tree of the source document.
Origin(i) ==
    Tree(p_html)[ExtractedNodes(Tree(p_html), p_options.min_text_length)[i]].parent

\* The chunks whose chat call returned a response.
Successful == {i \in 1..Len(p_outcome) : p_outcome[i].state = "success"}

\* The document the caller has in hand once process_html has returned.
FinalDoc == p_result.doc

\* Text node n of the final document was put there by inject_text.
Written(n) ==
    /\ IsText(FinalDoc, n)
    /\ ~(IsText(Tree(p_html), n) /\ Tree(p_html)[n] = FinalDoc[n])

\* C2: after process_html, every fragment whose generation call succeeded has
\* its response as a text of the element it was extracted from in the
\* document returned (so a document is returned, and it is not the original),
\* and every text written into an element is the text of a fragment that was
\* extracted from that element.
C2_ResponsesPlaced ==
    (p_pc = "done" /\ Successful # {}) =>
        /\ p_result.kind = "returned"
        /\ ~p_result.original
        /\ \A i \in Successful :
              \E n \in 1..MaxNode :
                  /\ IsText(FinalDoc, n)
                  /\ FinalDoc[n].parent = Origin(i)
                  /\ FinalDoc[n].text = p_outcome[i].text
        /\ \A n \in 1..MaxNode :
              Written(n) =>
                  \E i \in 1..Len(p_outcome) :
                      /\ Origin(i) = FinalDoc[n].parent
                      /\ p_outcome[i].text = FinalDoc[n].text

\* C8: once a network call made for a fragment has failed on authentication,
\* no further network call is made for that fragment, counting the calls the
\* retry wrapper makes; and when process_html has returned, the element such
\* a fragment came from still holds the fragment's original text.
C8_AuthNotRetried ==
    /\ frag.auth => frag.after_auth = 0
    /\ (p_pc = "done" /\ p_result.kind = "returned") =>
          \A i \in 1..Len(p_outcome) :
              p_outcome[i].auth =>
                  \E n \in 1..MaxNode :
                      /\ IsText(FinalDoc, n)
                      /\ FinalDoc[n].parent = Origin(i)
                      /\ Strip(FinalDoc[n].text) = p_chunks[i].text

\* C10: for a document larger than MAX_HTML_SIZE, process_html returns the
\* unmodified document to its caller, with errors = 1 in the statistics.
C10_TooLargeReturned ==
    (p_pc = "done" /\ Source(p_html).len > MAX_HTML_SIZE) =>
        /\ p_result.kind = "returned"
        /\ p_result.original
        /\ p_stats.errors = 1

\* C11: for the empty document, and for one whose stripped length is below
\* MIN_HTML_SIZE, process_html returns the original document with errors = 0
\* and warnings = 1; no client was created and no chat call was begun.
C11_EmptyReturned ==
    (p_pc = "done" /\ (Source(p_html).len = 0 \/ Source(p_html).striplen < MIN_HTML_SIZE)) =>
        /\ p_result.kind = "returned"
        /\ p_result.original
        /\ p_stats.errors = 0
        /\ p_stats.warnings = 1
        /\ p_llm = "none"
        /\ frag = NoFragment
        /\ w = NoCall

C11_Witness ==
    /\ p_pc = "done" /\ p_html = "DocTiny"
    /\ p_result.kind = "returned" /\ p_stats.warnings = 1

\* C12: once the chunks are extracted and the client is created, process_html
\* returns a document and does not raise.
C12_NeverRaises ==
    (p_pc = "done" /\ p_llm # "none") => p_result.kind = "returned"

Skipped == {i \in 1..Len(p_outcome) : p_outcome[i].state = "skipped"}

\* C14: when a run that came to the fragment loop ends with the processed
\* chunks injected, errors is the number of chunks that ended skipped.
C14_ErrorsCountSkipped ==
    (p_pc = "done" /\ p_llm # "none" /\ p_result.kind = "returned" /\ ~p_result.original)
        => p_stats.errors = Cardinality(Skipped)

\* The document passes _validate_html and no chunk is extracted from it.
NoChunks ==
    /\ _validate_html(Source(p_html)) = "ok"
    /\ extract_text_nodes(Tree(p_html), p_options.min_text_length) = <<>>

\* C26: when extraction yields no chunk, process_html constructs no client,
\* attempts no fragment, makes no chat call and no cache operation, and
\* returns the original document with chunks_processed, total_tokens_in,
\* total_tokens_out, errors and warnings all zero.
C26_NoChunksNoCalls ==
    NoChunks
        => /\ p_llm = "none" /\ p_chunks = <<>> /\ p_processed = <<>>
           /\ frag = NoFragment /\ w = NoCall /\ k_last = NoSummary
           /\ c_last = NoOp /\ metadata[1] = <<>> /\ files = NoFiles
           /\ p_pc \in {"start", "done"}
           /\ p_pc = "done"
                 => /\ p_result = ProcessingResult(TRUE, Tree(p_html))
                    /\ \A n \in {"chunks_processed", "total_tokens_in", "total_tokens_out",
                                  "errors", "warnings"} : p_stats[n] = 0

\* process_html has returned for a document of markup without text.
C26_Witness ==
    /\ NoChunks /\ p_pc = "done" /\ p_has_key
    /\ Source(p_html).len >= MIN_HTML_SIZE
    /\ p_result.kind = "returned" /\ p_result.original

\* Entry e of processed_chunks derives from chunk j: it has its address and
\* its flag, and the response as text if chunk j ended as success, the text
\* of chunk j if it was skipped.
DerivesFrom(e, j) ==
    /\ e.path = p_chunks[j].path
    /\ e.is_rtl = p_chunks[j].is_rtl
    /\ \/ p_outcome[j].state = "success" /\ e.text = p_outcome[j].text
       \/ p_outcome[j].state = "skipped" /\ e.text = p_chunks[j].text

\* C31: every chunk of processed_chunks has the address and the
\* right-to-left flag of an extracted chunk it derives from, with the
\* response as its text if that chunk ended as success and the original text
\* if it was skipped; and every chunk that has ended has such an entry.
C31_OnlyTextChanges ==
    /\ \A k \in 1..Len(p_processed) :
          \E j \in 1..Len(p_outcome) : DerivesFrom(p_processed[k], j)
    /\ \A j \in 1..Len(p_outcome) :
          \E k \in 1..Len(p_processed) : DerivesFrom(p_processed[k], j)

\* The chunks are about to be injected: one flagged right-to-left got a
\* response, and one was skipped.
C31_Witness ==
    /\ p_pc = "fragment" /\ p_i > Len(p_chunks)
    /\ \E j \in Successful : p_chunks[j].is_rtl /\ p_outcome[j].text # p_chunks[j].text
    /\ \E j \in Skipped : TRUE

\* C36: the chunks process_html hands to inject_text are one per extracted
\* chunk, in extraction order: entry j derives from chunk j.
C36_OnePerFragment ==
    (p_pc = "fragment" /\ p_i > Len(p_chunks))
        => /\ Len(p_processed) = Len(p_chunks)
           /\ \A j \in 1..Len(p_processed) : DerivesFrom(p_processed[j], j)

\* ------------------------------------------------- _process_chunk_batch

\* A client that implements the LLMClient protocol: chat returns a response
\* or raises one of the errors of the LLMError family, or something else.
ProtocolResults ==
    {[raised |-> "none", value |-> <<"X">>],
     [raised |-> "RateLimitError", value |-> NoneText],
     [raised |-> "AuthenticationError", value |-> NoneText],
     [raised |-> "LLMError", value |-> NoneText],
     [raised |-> "TypeError", value |-> NoneText]}

\* The batches: chunks as the extractor makes them, and one with a blank text.
Batches ==
    {extract_text_nodes(DocSimple.tree, 2),
     extract_text_nodes(DocMixed.tree, 2),
     <<TextChunk(<<" ">>, P, FALSE), TextChunk(Ab, P, TRUE)>>}

BatchInit ==
    /\ DomIdle
    /\ CacheEmpty(DEFAULT_TTL, DEFAULT_MAX_ENTRIES)
    /\ ClientIdle
    /\ RetryIdle
    /\ p_pc = "fragment"
    /\ p_html = "DocEmpty"
    /\ \E task \in PipeTasks : p_options = ProcessingOptions(task, GptModel, TRUE)
    /\ p_has_key = FALSE
    /\ p_llm = "protocol"
    /\ p_chunks \in Batches
    /\ p_i = 1 /\ p_retry = 0
    /\ p_processed = <<>> /\ p_stats = NoStats /\ p_outcome = <<>> /\ p_result = NoResult
    /\ frag = NoFragment

\* llm.chat returns or raises, and the orchestrator handles it.
ProtocolCall(res) ==
    /\ p_pc = "call"
    /\ p_llm = "protocol"
    /\ Goes("fragment", AfterChat(Orch, p_chunks[p_i], res.raised, res.value), w)
    /\ UNCHANGED <<metadata, files, metadata_file>>

\* return processed_chunks
BatchReturn ==
    /\ p_pc = "fragment"
    /\ p_i > Len(p_chunks)
    /\ p_llm = "protocol"
    /\ p_pc' = "done"
    /\ UNCHANGED <<p_html, p_options, p_has_key, p_llm, p_chunks, p_i, p_retry,
                   p_processed, p_stats, p_outcome, p_result, frag>>
    /\ UNCHANGED <<domVars, retryVars, cacheVars, clientVars>>

BatchNext ==
    \/ Attempt
    \/ \E res \in ProtocolResults : ProtocolCall(res)
    \/ BatchReturn

SpecBatch == BatchInit /\ [][BatchNext]_vars

\* C9: a fragment whose chat calls all end in RateLimitError is given at most
\* MAX_RETRY_ATTEMPTS chat calls by the orchestrator and is given up only after
\* that many; it waits after each failed call, the k-th wait being 2^k seconds,
\* so the waits between consecutive calls are strictly increasing.
C9_RateLimitedRetried ==
    /\ frag.attempts <= MAX_RETRY_ATTEMPTS
    /\ \A k \in 1..Len(frag.waits) : frag.waits[k] = 2 ^ k
    /\ \A k \in 1..(Len(frag.waits) - 1) : frag.waits[k] < frag.waits[k + 1]
    /\ (frag.limited /\ frag.state = "skipped") => frag.attempts = MAX_RETRY_ATTEMPTS
    /\ (frag.limited /\ p_pc = "call" /\ frag.attempts > 0)
          => Len(frag.waits) = frag.attempts - 1

C9_Witness ==
    /\ frag.limited /\ frag.state = "skipped"
    /\ frag.attempts = MAX_RETRY_ATTEMPTS
    /\ frag.waits = <<2, 4, 8>>
    /\ p_stats.errors = 1

\* One step of the orchestrator as the fragment it works on sees it.  While
\* the fragment stays the same it goes from attempting to attempting by a
\* chat call being made or by a RateLimitError and its wait, or from
\* attempting to success (out of a call) or to skipped, and does not move
\* once it is success or skipped.  The orchestrator turns to another
\* fragment, the next one, only when this one has ended.
FragmentStep ==
    IF frag'.index = frag.index
    THEN \/ frag' = frag
         \/ /\ frag.state = "attempting" /\ frag'.state = "attempting"
            /\ \/ /\ p_pc = "fragment" /\ p_pc' = "call"
                  /\ frag'.attempts = frag.attempts + 1 /\ frag'.waits = frag.waits
               \/ /\ p_pc = "call" /\ p_pc' = "fragment"
                  /\ frag'.attempts = frag.attempts
                  /\ Len(frag'.waits) = Len(frag.waits) + 1
         \/ /\ frag.state = "attempting" /\ frag'.state = "success"
            /\ p_pc = "call" /\ frag'.attempts = frag.attempts
         \/ /\ frag.state = "attempting" /\ frag'.state = "skipped"
            /\ frag'.attempts = frag.attempts
    ELSE /\ frag.state \in {"none", "success", "skipped", "blank"}
         /\ frag'.index = frag.index + 1
         /\ frag'.state \in {"attempting", "blank", "skipped"}
         /\ frag'.attempts <= 1

\* C28: each fragment follows Pending -> Attempting -> Success |
\* (RateLimited, wait, Attempting) | (Fatal, Skipped), with Skipped also
\* after the attempts are used up: it is given at most MAX_RETRY_ATTEMPTS (3)
\* chat calls, ends as exactly one of success and skipped, and is not
\* attempted again once it has ended.
C28_FragmentMachine ==
    /\ [](/\ frag.attempts <= 3
          /\ frag.state \in {"none", "attempting", "success", "skipped", "blank"}
          /\ p_pc = "call" => frag.state = "attempting"
          /\ \A j \in 1..Len(p_outcome) :
                /\ p_outcome[j].state \in {"success", "skipped", "blank"}
                /\ p_outcome[j].state = "blank" <=> Strip(p_chunks[j].text) = <<>>)
    /\ [][FragmentStep]_vars

\* A fragment was rate-limited twice, waited twice, and its third chat call
\* returned a response.
C28_Witness ==
    /\ frag.state = "success" /\ frag.attempts = 3 /\ Len(frag.waits) = 2
    /\ p_outcome[frag.index].state = "success"

\* C29: every wait the orchestrator takes for a fragment after a
\* RateLimitError is followed by another chat call for that fragment: a
\* fragment that has ended has waited fewer times than it was called, and
\* one about to be called again has waited as often as it was called.
C29_WaitThenRetry ==
    /\ frag.state \in {"success", "skipped"} /\ frag.attempts > 0
          => Len(frag.waits) < frag.attempts
    /\ frag.state = "attempting" => Len(frag.waits) <= frag.attempts

\* ------------------------------------------- the batches of process_html

\* range(0, len(chunks), CHUNK_BATCH_SIZE) and chunks[i:i + CHUNK_BATCH_SIZE]:
\* the batch chunk j is handed to _process_chunk_batch in, counted from 0.
\* The batches are processed one after the other with the same stats and
\* their results joined in order, which is the one loop over p_chunks.
BatchOf(j) == (j - 1) \div CHUNK_BATCH_SIZE

\* One chunk more than a batch holds, each with its own text and address.
LoopChunks ==
    [j \in 1..(CHUNK_BATCH_SIZE + 1) |-> TextChunk(<<"t">> \o Str(j), P \o Str(j), FALSE)]

\* What chat does in these runs: it returns a response or raises LLMError.
LoopResults ==
    {[raised |-> "none", value |-> <<"X">>],
     [raised |-> "LLMError", value |-> NoneText]}

LoopInit ==
    /\ DomIdle
    /\ CacheEmpty(DEFAULT_TTL, DEFAULT_MAX_ENTRIES)
    /\ ClientIdle
    /\ RetryIdle
    /\ p_pc = "fragment"
    /\ p_html = "DocEmpty"
    /\ p_options = ProcessingOptions("paraphrase", GptModel, TRUE)
    /\ p_has_key = FALSE
    /\ p_llm = "protocol"
    /\ p_chunks = LoopChunks
    /\ p_i = 1 /\ p_retry = 0
    /\ p_processed = <<>> /\ p_stats = NoStats /\ p_outcome = <<>> /\ p_result = NoResult
    /\ frag = NoFragment

LoopNext ==
    \/ Attempt
    \/ \E res \in LoopResults : ProtocolCall(res)
    \/ BatchReturn

SpecLoop == LoopInit /\ [][LoopNext]_vars

\* C27: chat calls are made one at a time in the order of the chunks, within
\* a batch and from one batch to the next: whenever a call for chunk i is in
\* flight or about to be made, every chunk before i has ended as success or
\* skipped, in its own place, and no chunk from i on has ended or been
\* called; the call in flight is the only one.
C27_CallsInOrder ==
    /\ p_i \in 1..(Len(p_chunks) + 1)
    /\ Len(p_outcome) = p_i - 1
    /\ \A j \in 1..Len(p_outcome) :
          /\ p_outcome[j].state \in {"success", "skipped"}
          /\ p_outcome[j].state = "skipped" => p_outcome[j].text = p_chunks[j].text
    /\ p_pc = "call"
          => /\ p_i <= Len(p_chunks)
             /\ frag.index = p_i /\ frag.state = "attempting"
             /\ frag.attempts = p_retry + 1
    /\ frag.index \in {0, p_i - 1, p_i}

\* The first call for the first chunk of the second batch is in flight, the
\* chunks of the first batch having ended, some as success and some skipped.
C27_Witness ==
    /\ p_pc = "call" /\ frag.index = CHUNK_BATCH_SIZE + 1 /\ frag.attempts = 1
    /\ BatchOf(frag.index) = 1 /\ BatchOf(Len(p_outcome)) = 0
    /\ p_outcome[1].state = "skipped" /\ p_outcome[CHUNK_BATCH_SIZE].state = "success"

\* ------------------------------------------------------------ termination

\* The orchestrator runs in one thread and every chat call returns or
\* raises: whatever step is possible is taken.
FairBatch == SpecBatch /\ WF_vars(BatchNext)

\* Every chunk has ended, as success or skipped if it has text.
AllEnded ==
    /\ Len(p_outcome) = Len(p_chunks)
    /\ \A j \in 1..Len(p_outcome) :
          Strip(p_chunks[j].text) # <<>> => p_outcome[j].state \in {"success", "skipped"}

\* C30: when every chat call returns or raises, every chunk with text ends
\* as success or skipped, whatever happened to the chunks before it, and
\* the loop over the chunks comes to its end and returns.
C30_Terminates ==
    /\ <>(p_pc = "done" /\ AllEnded)
    /\ \A j \in 1..CHUNK_BATCH_SIZE :
          (j <= Len(p_chunks) /\ Strip(p_chunks[j].text) # <<>>)
              ~> (Len(p_outcome) >= j /\ p_outcome[j].state \in {"success", "skipped"})

\* The loop has returned: its first chunk used up its attempts on
\* RateLimitError and was skipped, and the chunk after it got a response.
C30_Witness ==
    /\ p_pc = "done" /\ AllEnded
    /\ Len(p_outcome) >= 2
    /\ p_outcome[1].state = "skipped"
    /\ p_outcome[2].state = "success"
    /\ p_stats.errors = 1 /\ p_stats.chunks_processed = Len(p_outcome) - 1

\* ------------------------------------- retry_with_backoff, around any function

\* The arguments the wrapper is built with in these runs.
RetryConfigs ==
    {RetryConfig(m, i, d, b) : m \in {0, 1, 3, 4}, i \in {1, 2}, d \in {3, 10}, b \in {1, 2}}

\* The errors of the LLMError family a wrapped function may raise itself, as
\* the clients' chat and handle_http_errors do.
Family == {"RateLimitError", "AuthenticationError", "ModelError", "LLMError"}

\* What an invocation of the wrapped function may raise: an OpenAIError whose
\* message holds one of the words the wrapper looks for or none of them, a
\* GenAIError of one of its kinds, an error of the LLMError family, or any
\* other exception.
Raisable ==
    {"OpenAIError:rate_limit", "OpenAIError:authentication", "OpenAIError:model",
     "OpenAIError", "GenAIError:RateLimitError", "GenAIError:AuthenticationError",
     "GenAIError:ModelError", "GenAIError", "RequestError"} \cup Family

FuncOutcomes ==
    {[raised |-> "none", value |-> <<"X">>]}
        \cup {[raised |-> e, value |-> NoneText] : e \in Raisable}

RetryInit ==
    /\ DomIdle
    /\ CacheEmpty(DEFAULT_TTL, DEFAULT_MAX_ENTRIES)
    /\ ClientIdle
    /\ PipeIdle
    /\ r_cfg \in RetryConfigs
    /\ r_call = NoRetryCall

\* The wrapper is called: delay = initial_delay.
RetryBegin ==
    /\ ~r_call.active \/ r_call.done
    /\ r_call' = [NoRetryCall EXCEPT !.active = TRUE, !.delay = r_cfg.initial_delay]
    /\ UNCHANGED <<r_cfg, domVars, cacheVars, clientVars, pipeVars>>

\* The call record after an invocation with outcome r, the loop going on as
\* step says.
RetryInvoked(call, r, step) ==
    [call EXCEPT !.done = step.done,
                 !.attempt = step.w.attempt,
                 !.delay = step.w.delay,
                 !.calls = @ + 1,
                 !.sleeps = IF step.sleep > 0 THEN Append(@, step.sleep) ELSE @,
                 !.last = r.raised,
                 !.returned = r.raised = "none",
                 !.raised = step.raised,
                 !.value = step.value]

RetryStep(r, step) ==
    /\ r_call' = RetryInvoked(r_call, r, step)
    /\ UNCHANGED <<r_cfg, domVars, cacheVars, clientVars, pipeVars>>

\* The wrapper invokes the function once: it returns or raises.
RetryInvoke(r) ==
    /\ r_call.active /\ ~r_call.done
    /\ RetryStep(r, Wrapper(r_cfg, Loop(r_call), r))

RetryNext ==
    \/ RetryBegin
    \/ \E r \in FuncOutcomes : RetryInvoke(r)

SpecRetry == RetryInit /\ [][RetryNext]_vars

\* C16: in one call of the wrapper the function is invoked at most
\* max_retries + 1 times, and an invocation that returns ends the call: its
\* value is what the wrapper returns and the function is not invoked again.
C16_InvocationsBounded ==
    /\ r_call.calls <= r_cfg.max_retries + 1
    /\ r_call.returned =>
            /\ r_call.done
            /\ r_call.raised = "none"
            /\ r_call.value = <<"X">>
    /\ r_call.done => r_call.calls >= 1

\* A call that succeeded at its last permitted attempt.
C16_Witness ==
    /\ r_cfg.max_retries = 4 /\ r_call.calls = 5
    /\ r_call.returned /\ r_call.done

Classified(raised) ==
    IF raised \in Family THEN raised
    ELSE IF Converted(raised) # "none" THEN Converted(raised)
    ELSE "LLMError"

\* The call has not used up its attempts.
BudgetLeft == r_call.calls <= r_cfg.max_retries

\* C18: when an invocation fails with an authentication or a model failure,
\* the wrapper raises the classified error at once, with no wait and no
\* further invocation; and these two are the only errors the wrapper raises
\* while attempts remain.
C18_ImmediateOnlyAuthModel ==
    /\ (r_call.active /\ r_call.last # "none"
        /\ Classified(r_call.last) \in {"AuthenticationError", "ModelError"}) =>
            /\ r_call.done
            /\ r_call.raised = Classified(r_call.last)
            /\ Len(r_call.sleeps) = r_call.calls - 1
    /\ (r_call.done /\ r_call.raised # "none" /\ BudgetLeft) =>
            r_call.raised \in {"AuthenticationError", "ModelError"}

\* C19: when an invocation fails with a rate-limit or a generic failure and
\* attempts remain, the wrapper waits and goes on to invoke the function
\* again; it raises for such a failure only when the attempts are used up.
C19_TransientRetried ==
    (r_call.active /\ r_call.last # "none" /\ BudgetLeft
     /\ Classified(r_call.last) \in {"RateLimitError", "LLMError"}) =>
        /\ ~r_call.done
        /\ Len(r_call.sleeps) = r_call.calls

\* C20: when every permitted invocation has failed, the wrapper raises
\* RetryError.
C20_RetriesExhausted ==
    (r_call.done /\ ~r_call.returned /\ ~BudgetLeft) => r_call.raised = "RetryError"

====
